---- MODULE Spec2Model ----
(***************************************************************************)
(* Hospital diagnosis management admin application: billing aggregation,   *)
(* invoices, hospital and user administration, sign-in, support tickets    *)
(* and route protection, as state machines over the backend tables.        *)
(*                                                                         *)
(* The billing service (getBillingData, generateInvoice,                   *)
(* updateInvoiceStatus, sendInvoiceEmail) and the security service are     *)
(* imported by the sources but their code is not part of src/; they are    *)
(* modelled from the specification's sections 4.1 and 4.2.                 *)
(***************************************************************************)
EXTENDS Integers, Sequences, FiniteSets, TLC

VARIABLES
    diagnoses,      \* table diagnoses: set of rows
    usedDiagIds,    \* diagnosis ids (uuids) already handed out
    images,         \* storage bucket diagnosis-images: ids of the diagnoses with stored files
    aiCalls,        \* ids of the diagnoses for which the inference service was called
    invoices,       \* table invoices: sequence of rows, in order of generation
    views,          \* per admin browser session: the invoice statuses its page was rendered with
    selection,      \* dashboard state selectedHospital and the dates of billingPeriod / dateRange
    billingData,    \* dashboard state billingData (admin-billing-dashboard.tsx:38)
    rendered,       \* what the dashboard / table / PDF renderer last computed
    genLog,         \* per invoice: the form inputs and the diagnoses table it was generated from
    hospitalTable,  \* table hospitals: hospital id -> row
    usedHospitalIds, \* hospital ids already handed out
    users,          \* table users: user id -> row
    authAccounts,   \* auth provider: user id -> account
    session,        \* the browser's authenticated session: a user id or NoSession
    failedAttempts, \* security service: email -> recent failed login attempts
    wasDisabled,    \* users that have been disabled at some time
    tickets,        \* table support_tickets: ticket id -> row
    inflight,       \* requests started and not yet answered: request id -> position and locals
    req,            \* the last request: caller, operation, target
    resp            \* the response of the last request or service call

billingVars == <<diagnoses, usedDiagIds, images, aiCalls, invoices, views, selection, billingData, rendered,
                 genLog>>

adminTables == <<hospitalTable, usedHospitalIds, users, authAccounts, wasDisabled>>

authVars == <<session, failedAttempts>>

vars == <<billingVars, adminTables, authVars, tickets, inflight, req, resp>>

----------------------------------------------------------------------------
(* Generic helpers *)

Null == "null"

Undefined == "undefined"

\* null where an object is expected
NoData == [null |-> TRUE]

\* A map (JS object used as dictionary) is a function whose domain is its key set.
EmptyMap == [k \in {} |-> 0]

MapGet(m, k, dflt) == IF k \in DOMAIN m THEN m[k] ELSE dflt

MapPut(m, k, v) == [x \in (DOMAIN m) \cup {k} |-> IF x = k THEN v ELSE m[x]]

RECURSIVE SumOver(_, _)
SumOver(m, keys) ==
    IF keys = {} THEN 0
    ELSE LET k == CHOOSE x \in keys : TRUE IN m[k] + SumOver(m, keys \ {k})

MapSum(m) == SumOver(m, DOMAIN m)

RECURSIVE SeqSum(_)
SeqSum(s) == IF s = <<>> THEN 0 ELSE Head(s) + SeqSum(Tail(s))

IsPrefix(s, t) == Len(s) <= Len(t) /\ SubSeq(t, 1, Len(s)) = s

\* JavaScript number division: x / 0 is NaN for x = 0 and Infinity otherwise;
\* any other quotient is kept exact as a fraction.
JsNaN == [kind |-> "NaN"]

JsInfinity == [kind |-> "Infinity"]

JsNumber(n, d) == [kind |-> "number", num |-> n, den |-> d]

JsDiv(a, b) ==
    IF b = 0 THEN (IF a = 0 THEN JsNaN ELSE JsInfinity)
    ELSE JsNumber(a, b)

JsTimes100(q) == IF q.kind = "number" THEN JsNumber(q.num * 100, q.den) ELSE q

JsZero == JsNumber(0, 1)

IsZero(q) == q.kind = "number" /\ q.num = 0

----------------------------------------------------------------------------
(* Entities *)

Hospitals == {"h1", "h2"}

HospitalName == [h \in Hospitals |-> IF h = "h1" THEN "General Hospital" ELSE "City Clinic"]
HospitalCode == [h \in Hospitals |-> IF h = "h1" THEN "HSP-00001" ELSE "HSP-00002"]

\* Calendar days of the model; a billing period is a pair (startDate, endDate).
Days == {1, 2}

\* scan_type "none": patient_metadata carries no scan type.
ScanTypes == {"CT", "MRI", "none"}

\* The diagnoses of the model, in order of creation (created_at). d3 is a row
\* that predates the scan-type field: the create route below requires scanType.
DiagOrder == <<"d1", "d2", "d3", "d4">>

DiagIds == {DiagOrder[i] : i \in 1..Len(DiagOrder)}

LegacyIds == {"d3"}

Submission ==
    [d \in DiagIds |->
        CASE d = "d1" -> [hospital_id |-> "h1", scan_type |-> "CT",   day |-> 1]
          [] d = "d2" -> [hospital_id |-> "h1", scan_type |-> "MRI",  day |-> 1]
          [] d = "d3" -> [hospital_id |-> "h1", scan_type |-> "none", day |-> 2]
          [] d = "d4" -> [hospital_id |-> "h2", scan_type |-> "CT",   day |-> 2]]

UserIds == {"u1", "u2"}

DiagnosisRow(d, userId, ai) ==
    [id |-> d, hospital_id |-> Submission[d].hospital_id, user_id |-> userId,
     scan_type |-> Submission[d].scan_type, day |-> Submission[d].day,
     has_images |-> TRUE, ai |-> ai]

LegacyRows == {DiagnosisRow(d, "u1", "analysis") : d \in LegacyIds}

RowIds(rows) == {r.id : r \in rows}

----------------------------------------------------------------------------
(* Billing Aggregator (specification 4.1) *)

DefaultCategory == "Other"

\* Fixed price table; the spec's example prices CT at 10,000 and MRI at 20,000.
\* A category without a price costs nothing (the renderer reads cost || 0).
PriceTable == [t \in {"CT", "MRI", "Other"} |->
                  CASE t = "CT" -> 10000 [] t = "MRI" -> 20000 [] OTHER -> 0]

Category(row) == IF row.scan_type = "none" THEN DefaultCategory ELSE row.scan_type

Cost(category) == MapGet(PriceTable, category, 0)

\* The rows of the period (and hospital, if given), ordered by creation.
MatchingRows(rows, hospitalId, startDate, endDate) ==
    LET hit(d) == \E r \in rows :
                     /\ r.id = d
                     /\ (hospitalId = Undefined \/ r.hospital_id = hospitalId)
                     /\ startDate <= r.day /\ r.day <= endDate
        row(d) == CHOOSE r \in rows : r.id = d
        ids == SelectSeq(DiagOrder, hit)
    IN [i \in 1..Len(ids) |-> row(ids[i])]

EmptySummary ==
    [totalAmount |-> 0, totalDiagnoses |-> 0,
     diagnosisCounts |-> EmptyMap, diagnosisCosts |-> EmptyMap, diagnoses |-> <<>>]

\* A mis-accumulation: a diagnosis of the default category is counted and listed
\* but its per-type entries are not written.
AccumulateSkipsDefault(acc, row) ==
    LET t == Category(row)
        c == Cost(t)
    IN [totalAmount |-> acc.totalAmount + c,
        totalDiagnoses |-> acc.totalDiagnoses + 1,
        diagnosisCounts |-> IF t = DefaultCategory THEN acc.diagnosisCounts
                            ELSE MapPut(acc.diagnosisCounts, t, MapGet(acc.diagnosisCounts, t, 0) + 1),
        diagnosisCosts |-> IF t = DefaultCategory THEN acc.diagnosisCosts
                           ELSE MapPut(acc.diagnosisCosts, t, MapGet(acc.diagnosisCosts, t, 0) + c),
        diagnoses |-> Append(acc.diagnoses, [id |-> row.id, diagnosisType |-> t, cost |-> c])]

\* One diagnosis added to a summary: counts and costs per category, and overall.
Accumulate(acc, row) ==
    LET t == Category(row)
        c == Cost(t)
    IN [totalAmount |-> acc.totalAmount + c,
        totalDiagnoses |-> acc.totalDiagnoses + 1,
        diagnosisCounts |-> MapPut(acc.diagnosisCounts, t, MapGet(acc.diagnosisCounts, t, 0) + 1),
        diagnosisCosts |-> MapPut(acc.diagnosisCosts, t, MapGet(acc.diagnosisCosts, t, 0) + c),
        diagnoses |-> Append(acc.diagnoses, [id |-> row.id, diagnosisType |-> t, cost |-> c])]

RECURSIVE Summarise(_, _)
Summarise(acc, rowSeq) ==
    IF rowSeq = <<>> THEN acc
    ELSE Summarise(Accumulate(acc, Head(rowSeq)), Tail(rowSeq))

\* Hospitals with at least one matching row, in a fixed order.
HospitalOrder == <<"h1", "h2">>

HospitalSummaries(rowSeq) ==
    LET of(h) == SelectSeq(rowSeq, LAMBDA r : r.hospital_id = h)
        active == SelectSeq(HospitalOrder, LAMBDA h : of(h) # <<>>)
    IN [i \in 1..Len(active) |->
          LET h == active[i]
              s == Summarise(EmptySummary, of(h))
          IN [hospitalId |-> h, hospitalName |-> HospitalName[h],
              hospitalCode |-> HospitalCode[h],
              totalAmount |-> s.totalAmount, totalDiagnoses |-> s.totalDiagnoses,
              diagnosisCounts |-> s.diagnosisCounts, diagnosisCosts |-> s.diagnosisCosts,
              diagnoses |-> s.diagnoses]]

Aggregate(rows, hospitalId, startDate, endDate) ==
    LET rowSeq == MatchingRows(rows, hospitalId, startDate, endDate)
        s == Summarise(EmptySummary, rowSeq)
    IN [overall |-> [totalAmount |-> s.totalAmount, totalDiagnoses |-> s.totalDiagnoses,
                     diagnosisCounts |-> s.diagnosisCounts,
                     diagnosisCosts |-> s.diagnosisCosts],
        hospitals |-> HospitalSummaries(rowSeq)]

\* getBillingData: the aggregate, or { billingData: null, error } when the query fails.
GetBillingData(rows, hospitalId, startDate, endDate, dbOk) ==
    IF dbOk THEN [billingData |-> Aggregate(rows, hospitalId, startDate, endDate), error |-> Null]
    ELSE [billingData |-> NoData, error |-> "Failed to fetch billing data"]

----------------------------------------------------------------------------
(* Billing dashboard and hospital billing table (client components) *)

\* overallStats = billingData?.overall || { zeros }
OverallStats(bd) ==
    IF bd = NoData THEN [totalAmount |-> 0, diagnosisCounts |-> EmptyMap,
                       diagnosisCosts |-> EmptyMap, totalDiagnoses |-> 0]
    ELSE bd.overall

BillingHospitals(bd) == IF bd = NoData THEN <<>> ELSE bd.hospitals

\* The card without its guard.
AveragePerHospitalUnguarded(bd) ==
    JsDiv(OverallStats(bd).totalAmount, Len(BillingHospitals(bd)))

\* "Average Per Hospital" card: hospitals.length > 0 ? totalAmount / length : 0
AveragePerHospital(bd) ==
    IF Len(BillingHospitals(bd)) > 0
    THEN JsDiv(OverallStats(bd).totalAmount, Len(BillingHospitals(bd)))
    ELSE JsZero

\* totalAmount = hospitals.reduce((sum, hospital) => sum + hospital.totalAmount, 0)
TableTotalAmount(hospitals) ==
    SeqSum([i \in 1..Len(hospitals) |-> hospitals[i].totalAmount])

\* The percentage cell without its guard.
PercentageUnguarded(amount, totalAmount) == JsTimes100(JsDiv(amount, totalAmount))

\* Percentage cell: totalAmount > 0 ? (hospital.totalAmount / totalAmount) * 100 : 0
Percentage(amount, totalAmount) ==
    IF totalAmount > 0 THEN JsTimes100(JsDiv(amount, totalAmount)) ELSE JsZero

\* Hospital details dialog: diagnoses.length > 0 ? totalAmount / diagnoses.length : 0
AverageCost(hospital) ==
    IF Len(hospital.diagnoses) > 0
    THEN JsDiv(hospital.totalAmount, Len(hospital.diagnoses))
    ELSE JsZero

\* Everything the overview computes from one billing result.
RenderBilling(bd) ==
    LET hs == BillingHospitals(bd)
        total == TableTotalAmount(hs)
    IN [overall |-> OverallStats(bd),
        hospitalCount |-> Len(hs),
        averagePerHospital |-> AveragePerHospital(bd),
        percentages |-> [i \in 1..Len(hs) |-> Percentage(hs[i].totalAmount, total)],
        averageCosts |-> [i \in 1..Len(hs) |-> AverageCost(hs[i])]]

----------------------------------------------------------------------------
(* Responses *)

\* An HTTP response (status) or the outcome of a client-side handler (status 0).
Response(op, status) == [op |-> op, status |-> status, error |-> status >= 400]

UiResult(op, error) == [op |-> op, status |-> 0, error |-> error]

NoResponse == UiResult("none", FALSE)

----------------------------------------------------------------------------
(* Diagnosis create and delete routes *)

\* A create that gives up when the analysis fails.
HandleCreateDiagnosisAiRequired(d, userId, fieldsOk, hasImage, uploadOk, aiOk, dbOk) ==
    /\ d \in DiagIds \ LegacyIds
    /\ d \notin usedDiagIds
    /\ IF ~fieldsOk \/ ~hasImage
       THEN /\ resp' = Response("createDiagnosis", 400)
            /\ UNCHANGED <<diagnoses, usedDiagIds, images, aiCalls>>
       ELSE /\ usedDiagIds' = usedDiagIds \cup {d}
            /\ IF ~uploadOk
               THEN /\ resp' = Response("createDiagnosis", 500)
                    /\ UNCHANGED <<diagnoses, images, aiCalls>>
               ELSE /\ images' = images \cup {d}
                    /\ aiCalls' = aiCalls \cup {d}
                    /\ IF dbOk /\ aiOk
                       THEN /\ diagnoses' = diagnoses \cup {DiagnosisRow(d, userId, "analysis")}
                            /\ resp' = Response("createDiagnosis", 200)
                       ELSE /\ resp' = Response("createDiagnosis", 500)
                            /\ UNCHANGED diagnoses
    /\ UNCHANGED <<invoices, views, selection, billingData, rendered, genLog>>

\* A create that uploads the files before it looks at the form fields.
HandleCreateDiagnosisUploadsFirst(d, userId, fieldsOk, hasImage, uploadOk, aiOk, dbOk) ==
    /\ d \in DiagIds \ LegacyIds
    /\ d \notin usedDiagIds
    /\ IF ~hasImage
       THEN /\ resp' = Response("createDiagnosis", 400)
            /\ UNCHANGED <<diagnoses, usedDiagIds, images, aiCalls>>
       ELSE /\ usedDiagIds' = usedDiagIds \cup {d}
            /\ IF ~uploadOk
               THEN /\ resp' = Response("createDiagnosis", 500)
                    /\ UNCHANGED <<diagnoses, images, aiCalls>>
               ELSE /\ images' = images \cup {d}
                    /\ IF ~fieldsOk
                       THEN /\ resp' = Response("createDiagnosis", 400)
                            /\ UNCHANGED <<diagnoses, aiCalls>>
                       ELSE /\ aiCalls' = aiCalls \cup {d}
                            /\ IF dbOk
                               THEN /\ diagnoses' = diagnoses \cup
                                         {DiagnosisRow(d, userId,
                                                       IF aiOk THEN "analysis" ELSE "placeholder")}
                                    /\ resp' = Response("createDiagnosis", 200)
                               ELSE /\ resp' = Response("createDiagnosis", 500)
                                    /\ UNCHANGED diagnoses
    /\ UNCHANGED <<invoices, views, selection, billingData, rendered, genLog>>

\* POST /api/diagnoses/create. The inputs say which of the handler's checks and
\* backend calls succeed.
HandleCreateDiagnosis(d, userId, fieldsOk, hasImage, uploadOk, aiOk, dbOk) ==
    /\ d \in DiagIds \ LegacyIds
    /\ d \notin usedDiagIds
    /\ IF ~fieldsOk \/ ~hasImage
       THEN /\ resp' = Response("createDiagnosis", 400)
            /\ UNCHANGED <<diagnoses, usedDiagIds, images, aiCalls>>
       ELSE /\ usedDiagIds' = usedDiagIds \cup {d}
            /\ IF ~uploadOk
               THEN /\ resp' = Response("createDiagnosis", 500)
                    /\ UNCHANGED <<diagnoses, images, aiCalls>>
               ELSE /\ images' = images \cup {d}
                    /\ aiCalls' = aiCalls \cup {d}
                    /\ IF dbOk
                       THEN /\ diagnoses' = diagnoses \cup
                                 {DiagnosisRow(d, userId, IF aiOk THEN "analysis" ELSE "placeholder")}
                            /\ resp' = Response("createDiagnosis", 200)
                       ELSE /\ resp' = Response("createDiagnosis", 500)
                            /\ UNCHANGED diagnoses
    /\ UNCHANGED <<invoices, views, selection, billingData, rendered, genLog>>

\* A delete that also strips the diagnosis from the stored invoice snapshots.
HandleDeleteDiagnosisCascading(d, rmOk, dbOk) ==
    LET strip(inv) ==
            LET kept == SelectSeq(inv.details.diagnoses, LAMBDA e : e.id # d)
            IN [inv EXCEPT !.details.diagnoses = kept,
                           !.total_amount = SeqSum([i \in 1..Len(kept) |-> kept[i].cost])]
    IN /\ d \in DiagIds
       /\ images' = images \ {d}
       /\ diagnoses' = {r \in diagnoses : r.id # d}
       /\ invoices' = [i \in 1..Len(invoices) |-> strip(invoices[i])]
       /\ resp' = Response("deleteDiagnosis", 200)
       /\ UNCHANGED <<usedDiagIds, aiCalls, views, selection, billingData, rendered, genLog>>

\* DELETE /api/admin/diagnoses { diagnosisId }: the stored images are removed
\* first (the result of the removal is not looked at), then the row.
HandleDeleteDiagnosis(d, rmOk, dbOk) ==
    /\ d \in DiagIds
    /\ LET found == {r \in diagnoses : r.id = d}
           hasLinks == \E r \in found : r.has_images
       IN images' = IF hasLinks /\ rmOk THEN images \ {d} ELSE images
    /\ IF dbOk
       THEN /\ diagnoses' = {r \in diagnoses : r.id # d}
            /\ resp' = Response("deleteDiagnosis", 200)
       ELSE /\ resp' = Response("deleteDiagnosis", 500)
            /\ UNCHANGED diagnoses
    /\ UNCHANGED <<usedDiagIds, aiCalls, invoices, views, selection, billingData, rendered, genLog>>

----------------------------------------------------------------------------
(* Invoice Generator and invoice status (specification 4.2) *)

Sessions == {"a1", "a2"}

InvoiceStatuses == {"pending", "sent", "paid"}

\* The status is written whatever the stored status is.
AnyTransition(from, to) == TRUE

\* State machine of Invoice.status: pending -> sent, pending or sent -> paid.
TransitionAllowed(from, to) ==
    \/ from = "pending" /\ to = "sent"
    \/ from \in {"pending", "sent"} /\ to = "paid"

\* Human-readable invoice number: hospital code, period, sequence.
InvoiceNumber(hospitalId, startDate, endDate, seq) ==
    <<HospitalCode[hospitalId], startDate, endDate, seq>>

\* generateInvoice(hospitalId, startDate, endDate): aggregate scoped to the
\* hospital and period, then a new row with status pending, the computed total
\* and the snapshot. The period is not validated (4.2, step 2).
GenerateInvoice(invs, rows, hospitalId, startDate, endDate, dbOk) ==
    LET agg == Aggregate(rows, hospitalId, startDate, endDate)
        list == IF agg.hospitals = <<>> THEN <<>> ELSE agg.hospitals[1].diagnoses
        row == [id |-> Len(invs) + 1,
                invoice_number |-> InvoiceNumber(hospitalId, startDate, endDate, Len(invs) + 1),
                hospital_id |-> hospitalId,
                start_date |-> startDate, end_date |-> endDate,
                total_amount |-> agg.overall.totalAmount,
                status |-> "pending",
                details |-> [hospitalName |-> HospitalName[hospitalId],
                             diagnoses |-> list,
                             diagnosisCounts |-> agg.overall.diagnosisCounts,
                             diagnosisCosts |-> agg.overall.diagnosisCosts,
                             totalDiagnoses |-> agg.overall.totalDiagnoses]]
    IN IF dbOk THEN [invoice |-> row, error |-> Null]
       ELSE [invoice |-> NoData, error |-> "Failed to generate invoice"]

\* updateInvoiceStatus(id, status): one write of the row's status.
UpdateInvoiceStatus(invs, id, status, dbOk) ==
    IF dbOk /\ id \in 1..Len(invs) /\ TransitionAllowed(invs[id].status, status)
    THEN [invoices |-> [invs EXCEPT ![id].status = status], error |-> Null]
    ELSE [invoices |-> invs, error |-> "Failed to update invoice status"]

\* sendInvoiceEmail(id): notifies the hospital (a log statement) and marks the
\* invoice sent.
SendInvoiceEmail(invs, id, dbOk) ==
    IF dbOk /\ id \in 1..Len(invs) /\ TransitionAllowed(invs[id].status, "sent")
    THEN [invoices |-> [invs EXCEPT ![id].status = "sent"], error |-> Null]
    ELSE [invoices |-> invs, error |-> "Failed to send invoice"]

\* getInvoices(): the stored invoices, as handed to the page as props.
GetInvoices(invs) == invs

----------------------------------------------------------------------------
(* PDF renderer: generateInvoiceHTML (line items of the invoice) *)

\* A grouping that opens a new line for every diagnosis.
RECURSIVE GroupPerDiagnosis(_, _)
GroupPerDiagnosis(groups, list) ==
    IF list = <<>> THEN groups
    ELSE LET e == Head(list)
             type == IF e.diagnosisType = "" THEN "Other" ELSE e.diagnosisType
         IN GroupPerDiagnosis(Append(groups, [type |-> type, count |-> 1, cost |-> e.cost]),
                              Tail(list))

\* diagnosisByType[type].count += 1; diagnosisByType[type].cost += cost || 0,
\* keys in order of first occurrence (Object.entries).
RECURSIVE GroupByType(_, _)
GroupByType(groups, list) ==
    IF list = <<>> THEN groups
    ELSE LET e == Head(list)
             type == IF e.diagnosisType = "" THEN "Other" ELSE e.diagnosisType
             at == {i \in 1..Len(groups) : groups[i].type = type}
         IN IF at = {}
            THEN GroupByType(Append(groups, [type |-> type, count |-> 1, cost |-> e.cost]),
                             Tail(list))
            ELSE LET i == CHOOSE x \in at : TRUE
                 IN GroupByType([groups EXCEPT ![i].count = @ + 1, ![i].cost = @ + e.cost],
                                Tail(list))

GenerateInvoiceHTML(invoice) ==
    LET groups == GroupByType(<<>>, invoice.details.diagnoses)
    IN [invoice_number |-> invoice.invoice_number,
        hospitalName |-> invoice.details.hospitalName,
        status |-> invoice.status,
        rows |-> [i \in 1..Len(groups) |->
                    [type |-> groups[i].type, quantity |-> groups[i].count,
                     unitPrice |-> JsDiv(groups[i].cost, groups[i].count),
                     amount |-> groups[i].cost]],
        subtotal |-> invoice.total_amount,
        total |-> invoice.total_amount]

----------------------------------------------------------------------------
(* Billing page and dashboard handlers *)

\* AdminBillingPage: billing data of all hospitals for the default period (the
\* whole calendar of the model).
DefaultSelection == [hospital |-> "", startDate |-> 1, endDate |-> 2]

PageBillingData(rows, loadOk) ==
    GetBillingData(rows, Undefined, DefaultSelection.startDate, DefaultSelection.endDate,
                   loadOk).billingData

\* A handler that hands the dates to the service in the wrong order.
HandleGenerateInvoiceSwapsDates(s, invoiceHospital, startDate, endDate, datesChosen, dbOk, loadOk) ==
    /\ invoiceHospital # "" /\ datesChosen /\ dbOk
    /\ LET r == GenerateInvoice(invoices, diagnoses, invoiceHospital, endDate, startDate, dbOk)
       IN /\ invoices' = Append(invoices, r.invoice)
          /\ genLog' = Append(genLog, [hospital |-> invoiceHospital, startDate |-> startDate,
                                       endDate |-> endDate, rows |-> diagnoses])
          /\ views' = [views EXCEPT ![s] = GetInvoices(invoices')]
          /\ selection' = DefaultSelection
          /\ billingData' = PageBillingData(diagnoses, loadOk)
          /\ rendered' = RenderBilling(billingData')
          /\ resp' = UiResult("generateInvoice", FALSE)
    /\ UNCHANGED <<diagnoses, usedDiagIds, images, aiCalls>>

\* handleGenerateInvoice: form check, generateInvoice, then on success the form
\* is reset and the page loaded again (new invoice list, default billing data).
HandleGenerateInvoice(s, invoiceHospital, startDate, endDate, datesChosen, dbOk, loadOk) ==
    /\ IF invoiceHospital = "" \/ ~datesChosen
       THEN /\ resp' = UiResult("generateInvoice", TRUE)
            /\ UNCHANGED <<invoices, genLog, views, selection, billingData, rendered>>
       ELSE LET r == GenerateInvoice(invoices, diagnoses, invoiceHospital, startDate, endDate, dbOk)
            IN IF r.error # Null
               THEN /\ resp' = UiResult("generateInvoice", TRUE)
                    /\ UNCHANGED <<invoices, genLog, views, selection, billingData, rendered>>
               ELSE /\ invoices' = Append(invoices, r.invoice)
                    /\ genLog' = Append(genLog, [hospital |-> invoiceHospital,
                                                 startDate |-> startDate, endDate |-> endDate,
                                                 rows |-> diagnoses])
                    /\ views' = [views EXCEPT ![s] = GetInvoices(invoices')]
                    /\ selection' = DefaultSelection
                    /\ billingData' = PageBillingData(diagnoses, loadOk)
                    /\ rendered' = RenderBilling(billingData')
                    /\ resp' = UiResult("generateInvoice", FALSE)
    /\ UNCHANGED <<diagnoses, usedDiagIds, images, aiCalls>>

\* selectedHospital || undefined
SelectedHospitalId(sel) == IF sel.hospital = "" THEN Undefined ELSE sel.hospital

\* The hospital or period of the overview is changed and the effect runs
\* fetchBillingData: getBillingData for the selection, then setBillingData(newData);
\* the overview is rendered from it.
FetchBillingData(selectedHospital, startDate, endDate, dbOk) ==
    /\ selection' = [hospital |-> selectedHospital, startDate |-> startDate, endDate |-> endDate]
    /\ LET r == GetBillingData(diagnoses, SelectedHospitalId(selection'), startDate, endDate, dbOk)
       IN /\ billingData' = r.billingData
          /\ rendered' = RenderBilling(r.billingData)
          /\ resp' = UiResult("fetchBillingData", r.error # Null)
    /\ UNCHANGED <<diagnoses, usedDiagIds, images, aiCalls, invoices, views, genLog>>

----------------------------------------------------------------------------
(* Invoices list handlers *)

\* The billing page is loaded again in session s.
Reload(s, loadOk) ==
    /\ views' = [views EXCEPT ![s] = GetInvoices(invoices)]
    /\ selection' = DefaultSelection
    /\ billingData' = PageBillingData(diagnoses, loadOk)
    /\ rendered' = RenderBilling(billingData')
    /\ resp' = UiResult("reload", FALSE)
    /\ UNCHANGED <<diagnoses, usedDiagIds, images, aiCalls, invoices, genLog>>

\* "Send" button, rendered for isAdmin && invoice.status === "pending".
HandleSendInvoice(s, i, dbOk) ==
    /\ i \in 1..Len(views[s])
    /\ views[s][i].status = "pending"
    /\ LET r == SendInvoiceEmail(invoices, views[s][i].id, dbOk)
       IN /\ invoices' = r.invoices
          /\ IF r.error # Null
             THEN /\ resp' = UiResult("sendInvoice", TRUE)
                  /\ UNCHANGED views
             ELSE /\ resp' = UiResult("sendInvoice", FALSE)
                  /\ views' = [views EXCEPT ![s] = GetInvoices(invoices')]
    /\ UNCHANGED <<diagnoses, usedDiagIds, images, aiCalls, selection, billingData, rendered, genLog>>

\* "Mark as paid" button, rendered for status pending or sent.
HandleMarkAsPaid(s, i, dbOk) ==
    /\ i \in 1..Len(views[s])
    /\ views[s][i].status \in {"pending", "sent"}
    /\ LET r == UpdateInvoiceStatus(invoices, views[s][i].id, "paid", dbOk)
       IN /\ invoices' = r.invoices
          /\ IF r.error # Null
             THEN /\ resp' = UiResult("markAsPaid", TRUE)
                  /\ UNCHANGED views
             ELSE /\ resp' = UiResult("markAsPaid", FALSE)
                  /\ views' = [views EXCEPT ![s] = GetInvoices(invoices')]
    /\ UNCHANGED <<diagnoses, usedDiagIds, images, aiCalls, selection, billingData, rendered, genLog>>

\* "Download" button: generateInvoicePDF(invoice) on the invoice of the list.
HandleDownloadInvoice(s, i) ==
    /\ i \in 1..Len(views[s])
    /\ rendered' = GenerateInvoiceHTML(views[s][i])
    /\ resp' = UiResult("downloadInvoice", FALSE)
    /\ UNCHANGED <<diagnoses, usedDiagIds, images, aiCalls, invoices, views, selection, billingData, genLog>>

----------------------------------------------------------------------------
(* Route protection: middleware *)

NoSession == "none"

Redirect(to) == [op |-> "redirect", status |-> 307, error |-> FALSE, to |-> to]

\* Paths are sequences of segments; pathname.startsWith("/x") holds for the paths
\* of the model exactly when the first segment is x.
StartsWith(pathname, segment) == Len(pathname) >= 1 /\ pathname[1] = segment

LoginPath == <<"login">>
AdminHome == <<"admin">>
UnauthorizedPath == <<"unathorized">>
ApiAdminHospitals == <<"api", "admin", "hospitals">>
ApiAdminDiagnoses == <<"api", "admin", "diagnoses">>
ApiAdminUsers(id) == <<"api", "admin", "users", id>>
ApiAdminSupport(id) == <<"api", "admin", "support", id>>
AdminPages == {<<"admin">>, <<"admin", "hospitals">>, <<"admin", "users">>, <<"admin", "billing">>}

\* users.is_admin of the session's user; no row reads as not admin (data?.is_admin).
IsAdminUser(userTable, id) == id \in DOMAIN userTable /\ userTable[id].is_admin

\* A middleware that takes every path under /api/admin for an admin route as well.
MiddlewareCoversApi(pathname, sess, userTable) ==
    LET isAuthRoute == \/ StartsWith(pathname, "login") \/ StartsWith(pathname, "signup")
                       \/ StartsWith(pathname, "reset-password")
        isAdminRoute == \/ StartsWith(pathname, "admin")
                        \/ (Len(pathname) >= 2 /\ pathname[1] = "api" /\ pathname[2] = "admin")
    IN IF sess = NoSession /\ ~isAuthRoute /\ pathname # <<>> THEN Redirect(LoginPath)
       ELSE IF sess # NoSession /\ isAuthRoute THEN Redirect(AdminHome)
       ELSE IF isAdminRoute /\ sess # NoSession /\ ~IsAdminUser(userTable, sess)
            THEN Redirect(UnauthorizedPath)
       ELSE [op |-> "next", status |-> 200, error |-> FALSE, to |-> pathname]

\* A middleware that sends a signed-in non-admin from an admin route to the login page.
MiddlewareSendsNonAdminsToLogin(pathname, sess, userTable) ==
    LET isAuthRoute == \/ StartsWith(pathname, "login") \/ StartsWith(pathname, "signup")
                       \/ StartsWith(pathname, "reset-password")
        isAdminRoute == StartsWith(pathname, "admin")
    IN IF sess = NoSession /\ ~isAuthRoute /\ pathname # <<>> THEN Redirect(LoginPath)
       ELSE IF sess # NoSession /\ isAuthRoute THEN Redirect(AdminHome)
       ELSE IF isAdminRoute /\ sess # NoSession /\ ~IsAdminUser(userTable, sess)
            THEN Redirect(LoginPath)
       ELSE [op |-> "next", status |-> 200, error |-> FALSE, to |-> pathname]

\* middleware(req): the redirect it answers with, or "next".
Middleware(pathname, sess, userTable) ==
    LET isAuthRoute == \/ StartsWith(pathname, "login") \/ StartsWith(pathname, "signup")
                       \/ StartsWith(pathname, "reset-password")
        isAdminRoute == StartsWith(pathname, "admin")
    IN IF sess = NoSession /\ ~isAuthRoute /\ pathname # <<>> THEN Redirect(LoginPath)
       ELSE IF sess # NoSession /\ isAuthRoute THEN Redirect(AdminHome)
       ELSE IF isAdminRoute /\ sess # NoSession /\ ~IsAdminUser(userTable, sess)
            THEN Redirect(UnauthorizedPath)
       ELSE [op |-> "next", status |-> 200, error |-> FALSE, to |-> pathname]

\* A request: the session it carries, the operation, its target, and whether the
\* backend fails the write it asks for.
Request(caller, op, target, fault) ==
    [caller |-> caller, op |-> op, target |-> target, fault |-> fault]

NoRequest == Request(NoSession, "none", "", FALSE)

----------------------------------------------------------------------------
(* Hospitals API: /api/admin/hospitals *)

HospitalPool == {"h1", "h2", "h3"}

CodeOf == [h \in HospitalPool |->
             CASE h = "h1" -> "HSP-00001" [] h = "h2" -> "HSP-00002" [] OTHER -> "HSP-00003"]

HospitalRow(h, code) == [id |-> h, code |-> code]

\* .single(): data only when exactly one row matches.
SingleRow(matches) == Cardinality(matches) = 1

UserCount(userTable, hospitalId) ==
    Cardinality({u \in DOMAIN userTable : userTable[u].hospital_id = hospitalId})

DiagnosisCount(rows, hospitalId) == Cardinality({r \in rows : r.hospital_id = hospitalId})

\* POST: required fields, then the code must be unused, then the insert.
HandleCreateHospital(h, fieldsOk, code, dbOk) ==
    /\ h \in HospitalPool \ usedHospitalIds
    /\ IF ~fieldsOk
       THEN resp' = Response("createHospital", 400) /\ UNCHANGED <<hospitalTable, usedHospitalIds>>
       ELSE IF SingleRow({x \in DOMAIN hospitalTable : hospitalTable[x].code = code})
       THEN resp' = Response("createHospital", 400) /\ UNCHANGED <<hospitalTable, usedHospitalIds>>
       ELSE IF ~dbOk
       THEN resp' = Response("createHospital", 500) /\ UNCHANGED <<hospitalTable, usedHospitalIds>>
       ELSE /\ hospitalTable' = MapPut(hospitalTable, h, HospitalRow(h, code))
            /\ usedHospitalIds' = usedHospitalIds \cup {h}
            /\ resp' = Response("createHospital", 200)
    /\ UNCHANGED <<users, authAccounts, wasDisabled>>

\* PATCH: required fields, the hospital must exist, then name, address and code are written.
HandleUpdateHospital(h, fieldsOk, code, dbOk) ==
    /\ IF ~fieldsOk
       THEN resp' = Response("updateHospital", 400) /\ UNCHANGED hospitalTable
       ELSE IF h \notin DOMAIN hospitalTable
       THEN resp' = Response("updateHospital", 404) /\ UNCHANGED hospitalTable
       ELSE IF ~dbOk
       THEN resp' = Response("updateHospital", 500) /\ UNCHANGED hospitalTable
       ELSE /\ hospitalTable' = [hospitalTable EXCEPT ![h].code = code]
            /\ resp' = Response("updateHospital", 200)
    /\ UNCHANGED <<usedHospitalIds, users, authAccounts, wasDisabled>>

\* A delete that checks the users of the hospital but not its diagnoses.
HandleDeleteHospitalUsersOnly(hospitalId, dbOk) ==
    /\ IF hospitalId = ""
       THEN resp' = Response("deleteHospital", 400) /\ UNCHANGED hospitalTable
       ELSE IF UserCount(users, hospitalId) > 0
       THEN resp' = Response("deleteHospital", 400) /\ UNCHANGED hospitalTable
       ELSE IF ~dbOk
       THEN resp' = Response("deleteHospital", 500) /\ UNCHANGED hospitalTable
       ELSE /\ hospitalTable' = [x \in DOMAIN hospitalTable \ {hospitalId} |-> hospitalTable[x]]
            /\ resp' = Response("deleteHospital", 200)
    /\ UNCHANGED <<usedHospitalIds, users, authAccounts, wasDisabled>>

\* DELETE { hospitalId }: rejected while users or diagnoses reference the
\* hospital (both count queries answer), then the row is deleted.
HandleDeleteHospital(hospitalId, dbOk) ==
    /\ IF hospitalId = ""
       THEN resp' = Response("deleteHospital", 400) /\ UNCHANGED hospitalTable
       ELSE IF UserCount(users, hospitalId) > 0
       THEN resp' = Response("deleteHospital", 400) /\ UNCHANGED hospitalTable
       ELSE IF DiagnosisCount(diagnoses, hospitalId) > 0
       THEN resp' = Response("deleteHospital", 400) /\ UNCHANGED hospitalTable
       ELSE IF ~dbOk
       THEN resp' = Response("deleteHospital", 500) /\ UNCHANGED hospitalTable
       ELSE /\ hospitalTable' = [x \in DOMAIN hospitalTable \ {hospitalId} |-> hospitalTable[x]]
            /\ resp' = Response("deleteHospital", 200)
    /\ UNCHANGED <<usedHospitalIds, users, authAccounts, wasDisabled>>

----------------------------------------------------------------------------
(* Users API: /api/admin/users/[id], and the user management service *)

UserRow(hospitalId, isAdmin, isDisabled) ==
    [hospital_id |-> hospitalId, is_admin |-> isAdmin, is_disabled |-> isDisabled]

Account(disabled) == [disabled |-> disabled]

\* auth.admin.updateUserById(userId, { user_metadata: { disabled } })
SetAccountDisabled(accounts, userId, disabled) ==
    IF userId \in DOMAIN accounts THEN [accounts EXCEPT ![userId].disabled = disabled]
    ELSE accounts

UserOperations == {"disable", "enable", "resetPassword", "update"}

\* PATCH { operation, ... }: 404 without a users row; disable and enable write
\* is_disabled and then the account's metadata (result not looked at); a regular
\* update writes the given fields, isAdmin among them.
HandleUpdateUser(userId, operation, isAdmin, dbOk, authOk) ==
    /\ IF userId \notin DOMAIN users
       THEN resp' = Response("updateUser", 404) /\ UNCHANGED <<users, authAccounts, wasDisabled>>
       ELSE IF operation \in {"disable", "enable"}
       THEN IF ~dbOk
            THEN resp' = Response("updateUser", 500)
                 /\ UNCHANGED <<users, authAccounts, wasDisabled>>
            ELSE /\ users' = [users EXCEPT ![userId].is_disabled = (operation = "disable")]
                 /\ wasDisabled' = IF operation = "disable" THEN wasDisabled \cup {userId}
                                   ELSE wasDisabled
                 /\ authAccounts' = IF authOk
                                    THEN SetAccountDisabled(authAccounts, userId, operation = "disable")
                                    ELSE authAccounts
                 /\ resp' = Response("updateUser", 200)
       ELSE IF operation = "resetPassword"
       THEN /\ resp' = Response("updateUser", IF authOk THEN 200 ELSE 500)
            /\ UNCHANGED <<users, authAccounts, wasDisabled>>
       ELSE IF ~dbOk
            THEN resp' = Response("updateUser", 500)
                 /\ UNCHANGED <<users, authAccounts, wasDisabled>>
            ELSE /\ users' = [users EXCEPT ![userId].is_admin = isAdmin]
                 /\ resp' = Response("updateUser", 200)
                 /\ UNCHANGED <<authAccounts, wasDisabled>>
    /\ UNCHANGED <<hospitalTable, usedHospitalIds>>

\* A delete that does not look at the diagnoses of the user.
HandleDeleteUserUnguarded(userId, countOk, authOk, dbOk) ==
    /\ IF ~countOk
       THEN resp' = Response("deleteUser", 500) /\ UNCHANGED <<users, authAccounts>>
       ELSE IF ~authOk
       THEN resp' = Response("deleteUser", 500) /\ UNCHANGED <<users, authAccounts>>
       ELSE /\ authAccounts' = [x \in DOMAIN authAccounts \ {userId} |-> authAccounts[x]]
            /\ IF ~dbOk
               THEN resp' = Response("deleteUser", 500) /\ UNCHANGED users
               ELSE /\ users' = [x \in DOMAIN users \ {userId} |-> users[x]]
                    /\ resp' = Response("deleteUser", 200)
    /\ UNCHANGED <<hospitalTable, usedHospitalIds, wasDisabled>>

\* DELETE: 500 when the diagnoses count fails, 400 when the user has diagnoses;
\* then the auth account is deleted, then the users row.
HandleDeleteUser(userId, countOk, authOk, dbOk) ==
    /\ IF ~countOk
       THEN resp' = Response("deleteUser", 500) /\ UNCHANGED <<users, authAccounts>>
       ELSE IF Cardinality({r \in diagnoses : r.user_id = userId}) > 0
       THEN resp' = Response("deleteUser", 400) /\ UNCHANGED <<users, authAccounts>>
       ELSE IF ~authOk
       THEN resp' = Response("deleteUser", 500) /\ UNCHANGED <<users, authAccounts>>
       ELSE /\ authAccounts' = [x \in DOMAIN authAccounts \ {userId} |-> authAccounts[x]]
            /\ IF ~dbOk
               THEN resp' = Response("deleteUser", 500) /\ UNCHANGED users
               ELSE /\ users' = [x \in DOMAIN users \ {userId} |-> users[x]]
                    /\ resp' = Response("deleteUser", 200)
    /\ UNCHANGED <<hospitalTable, usedHospitalIds, wasDisabled>>

\* disableUser / enableUser (service): the users row, then the account's
\* metadata; a failure of either step is reported as an error.
SetUserDisabled(userId, disabled, dbOk, authOk) ==
    /\ IF ~dbOk \/ userId \notin DOMAIN users
       THEN resp' = UiResult(IF disabled THEN "disableUser" ELSE "enableUser", TRUE)
            /\ UNCHANGED <<users, authAccounts, wasDisabled>>
       ELSE /\ users' = [users EXCEPT ![userId].is_disabled = disabled]
            /\ wasDisabled' = IF disabled THEN wasDisabled \cup {userId} ELSE wasDisabled
            /\ IF authOk
               THEN /\ authAccounts' = SetAccountDisabled(authAccounts, userId, disabled)
                    /\ resp' = UiResult(IF disabled THEN "disableUser" ELSE "enableUser", FALSE)
               ELSE /\ resp' = UiResult(IF disabled THEN "disableUser" ELSE "enableUser", TRUE)
                    /\ UNCHANGED authAccounts
    /\ UNCHANGED <<hospitalTable, usedHospitalIds>>

DisableUser(userId, dbOk, authOk) == SetUserDisabled(userId, TRUE, dbOk, authOk)

EnableUser(userId, dbOk, authOk) == SetUserDisabled(userId, FALSE, dbOk, authOk)

----------------------------------------------------------------------------
(* Sign-in: auth-service, with the security service's failed-attempt counter *)

LockoutThreshold == 5

\* The security service: recent failed login attempts per email. A user's
\* email is identified with the user id.
GetRecentFailedLoginAttempts(attempts, email) == MapGet(attempts, email, 0)

RecordFailedLoginAttempt(attempts, email) == MapPut(attempts, email, MapGet(attempts, email, 0) + 1)

ClearFailedLoginAttempts(attempts, email) ==
    IF email \in DOMAIN attempts THEN [attempts EXCEPT ![email] = 0] ELSE attempts

\* { error: message }, as signIn returns it.
SignInError(message) == [op |-> "signIn", status |-> 0, error |-> TRUE, message |-> message]

TooManyAttempts == "Too many failed login attempts"

\* A sign-in that does not look at is_disabled.
SignInIgnoresDisabled(email, passwordOk, hospitalId, securityOk) ==
    /\ session = NoSession
    /\ req' = [caller |-> NoSession, op |-> "signIn", target |-> email, fault |-> ~securityOk,
               password |-> passwordOk, hospitalId |-> hospitalId]
    /\ IF ~securityOk
       THEN resp' = SignInError("Security check failed") /\ UNCHANGED <<session, failedAttempts>>
       ELSE IF GetRecentFailedLoginAttempts(failedAttempts, email) >= LockoutThreshold
       THEN resp' = SignInError(TooManyAttempts) /\ UNCHANGED <<session, failedAttempts>>
       ELSE IF ~(passwordOk /\ email \in DOMAIN authAccounts)
       THEN /\ failedAttempts' = RecordFailedLoginAttempt(failedAttempts, email)
            /\ resp' = SignInError("Invalid login credentials")
            /\ UNCHANGED session
       ELSE /\ failedAttempts' = ClearFailedLoginAttempts(failedAttempts, email)
            /\ IF email \notin DOMAIN users
               THEN session' = email /\ resp' = SignInError("User profile not found")
               ELSE IF hospitalId # "" /\ users[email].hospital_id # hospitalId
               THEN session' = NoSession /\ resp' = SignInError("You do not have access to this hospital")
               ELSE session' = email /\ resp' = UiResult("signIn", FALSE)

\* A sign-in that submits the credentials however many attempts have failed.
SignInNoLockout(email, passwordOk, hospitalId, securityOk) ==
    /\ session = NoSession
    /\ req' = [caller |-> NoSession, op |-> "signIn", target |-> email, fault |-> ~securityOk,
               password |-> passwordOk, hospitalId |-> hospitalId]
    /\ IF ~securityOk
       THEN resp' = SignInError("Security check failed") /\ UNCHANGED <<session, failedAttempts>>
       ELSE IF ~(passwordOk /\ email \in DOMAIN authAccounts)
       THEN /\ failedAttempts' = RecordFailedLoginAttempt(failedAttempts, email)
            /\ resp' = SignInError("Invalid login credentials")
            /\ UNCHANGED session
       ELSE /\ failedAttempts' = ClearFailedLoginAttempts(failedAttempts, email)
            /\ IF email \notin DOMAIN users
               THEN session' = email /\ resp' = SignInError("User profile not found")
               ELSE IF users[email].is_disabled
               THEN session' = NoSession /\ resp' = SignInError("Your account has been disabled")
               ELSE IF hospitalId # "" /\ users[email].hospital_id # hospitalId
               THEN session' = NoSession /\ resp' = SignInError("You do not have access to this hospital")
               ELSE session' = email /\ resp' = UiResult("signIn", FALSE)

\* signIn(formData), called from the login page, which the middleware serves
\* only to a browser without a session. The provider establishes the session
\* when the credentials are right; the profile checks that follow sign out again.
SignIn(email, passwordOk, hospitalId, securityOk) ==
    /\ session = NoSession
    /\ req' = [caller |-> NoSession, op |-> "signIn", target |-> email, fault |-> ~securityOk,
               password |-> passwordOk, hospitalId |-> hospitalId]
    /\ IF ~securityOk
       THEN resp' = SignInError("Security check failed") /\ UNCHANGED <<session, failedAttempts>>
       ELSE IF GetRecentFailedLoginAttempts(failedAttempts, email) >= LockoutThreshold
       THEN resp' = SignInError(TooManyAttempts) /\ UNCHANGED <<session, failedAttempts>>
       ELSE IF ~(passwordOk /\ email \in DOMAIN authAccounts)
       THEN /\ failedAttempts' = RecordFailedLoginAttempt(failedAttempts, email)
            /\ resp' = SignInError("Invalid login credentials")
            /\ UNCHANGED session
       ELSE /\ failedAttempts' = ClearFailedLoginAttempts(failedAttempts, email)
            /\ IF email \notin DOMAIN users
               THEN session' = email /\ resp' = SignInError("User profile not found")
               ELSE IF users[email].is_disabled
               THEN session' = NoSession /\ resp' = SignInError("Your account has been disabled")
               ELSE IF hospitalId # "" /\ users[email].hospital_id # hospitalId
               THEN session' = NoSession /\ resp' = SignInError("You do not have access to this hospital")
               ELSE session' = email /\ resp' = UiResult("signIn", FALSE)

\* signOut()
SignOut ==
    /\ session # NoSession
    /\ session' = NoSession
    /\ req' = Request(session, "signOut", "", FALSE)
    /\ resp' = Redirect(LoginPath)
    /\ UNCHANGED failedAttempts

\* Failed attempts are recent only for a while.
AttemptsExpire(email) ==
    /\ failedAttempts[email] > 0
    /\ failedAttempts' = [failedAttempts EXCEPT ![email] = 0]
    /\ req' = Request(NoSession, "expire", email, FALSE)
    /\ resp' = NoResponse
    /\ UNCHANGED session

----------------------------------------------------------------------------
(* Support tickets: the support service and /api/admin/support/[id] *)

TicketIds == {"t1"}

\* .select("a, b"): the row restricted to the selected columns.
Select(row, columns) == [c \in columns \cap DOMAIN row |-> row[c]]

\* obj.name, undefined when the object has no such property.
Field(obj, name) == IF name \in DOMAIN obj THEN obj[name] ELSE Undefined

\* createSupportTicketForUser(ticket): status and priority default to open and medium.
CreateSupportTicketForUser(ticketId, userId, valid, status, priority, dbOk) ==
    /\ ticketId \in TicketIds \ DOMAIN tickets
    /\ IF ~valid \/ ~dbOk
       THEN resp' = UiResult("createTicket", TRUE) /\ UNCHANGED tickets
       ELSE /\ tickets' = MapPut(tickets, ticketId,
                                 [user_id |-> userId,
                                  status |-> IF status = "" THEN "open" ELSE status,
                                  priority |-> IF priority = "" THEN "medium" ELSE priority,
                                  admin_notes |-> Null,
                                  responses |-> <<>>])
            /\ resp' = UiResult("createTicket", FALSE)

\* updateSupportTicketStatus(id, status, adminNotes)
UpdateSupportTicketStatus(ticketId, status, adminNotes, dbOk) ==
    /\ IF ~dbOk \/ ticketId \notin DOMAIN tickets
       THEN resp' = UiResult("updateTicketStatus", TRUE) /\ UNCHANGED tickets
       ELSE /\ tickets' = [tickets EXCEPT
                             ![ticketId].status = status,
                             ![ticketId].admin_notes = IF adminNotes # "" THEN adminNotes ELSE @]
            /\ resp' = UiResult("updateTicketStatus", FALSE)

\* addSupportTicketResponse(ticketId, response, isAdminResponse): reads the
\* ticket's responses column, pushes the new entry and writes the list back.
AddSupportTicketResponse(ticketId, response, isAdminResponse, dbOk) ==
    /\ IF ~dbOk \/ ticketId \notin DOMAIN tickets
       THEN resp' = UiResult("addResponse", TRUE) /\ UNCHANGED tickets
       ELSE LET ticket == Select(tickets[ticketId], {"responses"})
                newResponse == [content |-> response, is_admin_response |-> isAdminResponse]
                responses == Append(ticket.responses, newResponse)
            IN /\ tickets' = [tickets EXCEPT
                                ![ticketId].responses = responses,
                                ![ticketId].status =
                                    IF isAdminResponse /\ Field(ticket, "status") = "open"
                                    THEN "in-progress" ELSE @]
               /\ resp' = UiResult("addResponse", FALSE)

\* PATCH { status, priority, adminNotes }: the fields that are provided are written.
HandleUpdateTicket(ticketId, body, dbOk) ==
    /\ IF ticketId \notin DOMAIN tickets
       THEN resp' = Response("updateTicket", 404) /\ UNCHANGED tickets
       ELSE IF ~dbOk
       THEN resp' = Response("updateTicket", 500) /\ UNCHANGED tickets
       ELSE /\ tickets' = [tickets EXCEPT
                             ![ticketId].status =
                                 IF body.status # Undefined THEN body.status ELSE @,
                             ![ticketId].priority =
                                 IF body.priority # Undefined THEN body.priority ELSE @,
                             ![ticketId].admin_notes =
                                 IF body.adminNotes # Undefined THEN body.adminNotes ELSE @]
            /\ resp' = Response("updateTicket", 200)

\* An add-response that puts the new entry in front of the list.
HandleAddResponsePrepends(ticketId, response, adminUserId, dbOk) ==
    /\ IF response = ""
       THEN resp' = Response("addResponse", 400) /\ UNCHANGED tickets
       ELSE IF ticketId \notin DOMAIN tickets
       THEN resp' = Response("addResponse", 404) /\ UNCHANGED tickets
       ELSE LET ticket == Select(tickets[ticketId], {"responses", "subject", "users"})
                adminName == IF adminUserId \in DOMAIN users THEN adminUserId
                             ELSE "Administrator"
                newResponse == [content |-> response, is_admin_response |-> TRUE,
                                admin_name |-> adminName]
                responses == <<newResponse>> \o ticket.responses
            IN IF ~dbOk
               THEN resp' = Response("addResponse", 500) /\ UNCHANGED tickets
               ELSE /\ tickets' = [tickets EXCEPT
                                     ![ticketId].responses = responses,
                                     ![ticketId].status =
                                         IF Field(ticket, "status") = "open" THEN "in-progress"
                                         ELSE @]
                    /\ resp' = Response("addResponse", 200)

\* POST { response }: reads responses, subject and the requester of the ticket,
\* pushes the new entry (admin_name from the users row of adminUserId, or
\* "Administrator") and writes the list back.
HandleAddResponse(ticketId, response, adminUserId, dbOk) ==
    /\ IF response = ""
       THEN resp' = Response("addResponse", 400) /\ UNCHANGED tickets
       ELSE IF ticketId \notin DOMAIN tickets
       THEN resp' = Response("addResponse", 404) /\ UNCHANGED tickets
       ELSE LET ticket == Select(tickets[ticketId], {"responses", "subject", "users"})
                adminName == IF adminUserId \in DOMAIN users THEN adminUserId
                             ELSE "Administrator"
                newResponse == [content |-> response, is_admin_response |-> TRUE,
                                admin_name |-> adminName]
                responses == Append(ticket.responses, newResponse)
            IN IF ~dbOk
               THEN resp' = Response("addResponse", 500) /\ UNCHANGED tickets
               ELSE /\ tickets' = [tickets EXCEPT
                                     ![ticketId].responses = responses,
                                     ![ticketId].status =
                                         IF Field(ticket, "status") = "open" THEN "in-progress"
                                         ELSE @]
                    /\ resp' = Response("addResponse", 200)

----------------------------------------------------------------------------
(* Specification of the billing overview: diagnoses come and go, the dashboard
   fetches billing data for a hospital selection and a period. *)

\* Hospital filter of the overview: none yet (""), "All Hospitals" ("all") or a hospital.
HospitalSelections == Hospitals \cup {"", "all"}

\* Periods of the overview: the presets and the range picker give startDate <= endDate.
Periods == {p \in Days \X Days : p[1] <= p[2]}

\* Two hospitals; u1 works at h1, the administrator u2 at h2; nobody is signed in.
InitAdmin ==
    /\ hospitalTable = [h \in {"h1", "h2"} |-> HospitalRow(h, CodeOf[h])]
    /\ usedHospitalIds = {"h1", "h2"}
    /\ users = [u \in UserIds |-> IF u = "u1" THEN UserRow("h1", FALSE, FALSE)
                                   ELSE UserRow("h2", TRUE, FALSE)]
    /\ authAccounts = [u \in UserIds |-> Account(FALSE)]
    /\ wasDisabled = {}
    /\ session = NoSession
    /\ failedAttempts = [u \in UserIds |-> 0]
    /\ tickets = EmptyMap
    /\ inflight = EmptyMap
    /\ req = NoRequest

InitBilling ==
    /\ InitAdmin
    /\ diagnoses = LegacyRows
    /\ usedDiagIds = LegacyIds
    /\ images = LegacyIds
    /\ aiCalls = LegacyIds
    /\ invoices = <<>>
    /\ views = [s \in Sessions |-> <<>>]
    /\ selection = DefaultSelection
    /\ billingData = PageBillingData(LegacyRows, TRUE)
    /\ rendered = RenderBilling(billingData)
    /\ genLog = <<>>
    /\ resp = NoResponse

\* In this specification a request fails only in validation: uploads, the
\* analysis, the removal of stored images and the database succeed.
CreateDiagnosis ==
    /\ \E d \in DiagIds, fieldsOk \in BOOLEAN :
          HandleCreateDiagnosis(d, "u1", fieldsOk, TRUE, TRUE, TRUE, TRUE)
    /\ UNCHANGED <<adminTables, authVars, tickets, req, inflight>>

DeleteDiagnosis ==
    /\ \E d \in DiagIds : HandleDeleteDiagnosis(d, TRUE, TRUE)
    /\ UNCHANGED <<adminTables, authVars, tickets, req, inflight>>

FetchBilling ==
    /\ \E h \in HospitalSelections, p \in Periods, dbOk \in BOOLEAN :
          FetchBillingData(h, p[1], p[2], dbOk)
    /\ UNCHANGED <<adminTables, authVars, tickets, req, inflight>>

NextAggregate == CreateDiagnosis \/ DeleteDiagnosis \/ FetchBilling

SpecAggregate == InitBilling /\ [][NextAggregate]_vars

\* C3: whatever diagnoses the period holds, in the billing result shown by the
\* overview the per-type costs add up to overall.totalAmount and the per-type
\* counts add up to overall.totalDiagnoses.
C3_PerTypeSumsMatchOverall ==
    LET o == OverallStats(billingData)
    IN /\ MapSum(o.diagnosisCosts) = o.totalAmount
       /\ MapSum(o.diagnosisCounts) = o.totalDiagnoses
       /\ rendered.overall = o

\* A fetched result over three diagnoses of three categories, one of them the
\* default category.
C3_Witness ==
    /\ resp = UiResult("fetchBillingData", FALSE)
    /\ billingData # NoData
    /\ billingData.overall.totalDiagnoses = 3
    /\ billingData.overall.totalAmount = 30000
    /\ DOMAIN billingData.overall.diagnosisCounts = {"CT", "MRI", "Other"}

\* The result held by the overview is the zero-valued summary.
ZeroResult ==
    /\ billingData # NoData
    /\ billingData.overall = [totalAmount |-> 0, totalDiagnoses |-> 0,
                              diagnosisCounts |-> EmptyMap, diagnosisCosts |-> EmptyMap]
    /\ billingData.hospitals = <<>>

\* Every share and average of the overview is a number, and 0 when its denominator is 0.
GuardedFigures ==
    LET hs == BillingHospitals(billingData)
    IN /\ rendered.averagePerHospital.kind = "number"
       /\ (Len(hs) = 0 => rendered.averagePerHospital = JsZero)
       /\ \A i \in 1..Len(hs) :
             /\ rendered.percentages[i].kind = "number"
             /\ (TableTotalAmount(hs) = 0 => rendered.percentages[i] = JsZero)
             /\ rendered.averageCosts[i].kind = "number"
             /\ (Len(hs[i].diagnoses) = 0 => rendered.averageCosts[i] = JsZero)

\* C4: when the selection just fetched matches no diagnosis the result has
\* totalAmount 0, totalDiagnoses 0 and empty per-type maps, and in every state each
\* per-hospital share, the average per hospital and the average cost per
\* diagnosis is a number that is 0 when its denominator is 0 (never NaN or Infinity).
C4_ZeroResultAndGuardedDivisions ==
    /\ (/\ resp = UiResult("fetchBillingData", FALSE)
        /\ MatchingRows(diagnoses, SelectedHospitalId(selection),
                        selection.startDate, selection.endDate) = <<>>)
       => ZeroResult
    /\ GuardedFigures

\* Diagnoses exist, but the fetched selection matches none of them: the overview
\* shows the zero summary and an average per hospital of 0.
C4_Witness ==
    /\ resp = UiResult("fetchBillingData", FALSE)
    /\ diagnoses # {}
    /\ ZeroResult
    /\ rendered.hospitalCount = 0
    /\ rendered.averagePerHospital = JsZero

\* A hospital whose only diagnosis is of the unpriced default category: the table
\* total is 0 and the hospital's share is 0.
C4_WitnessZeroTotal ==
    /\ rendered.hospitalCount = 1
    /\ TableTotalAmount(BillingHospitals(billingData)) = 0
    /\ rendered.percentages = <<JsZero>>

----------------------------------------------------------------------------
(* Specification of the invoice status: two admin sessions work on the same
   invoices, each from the list its page was last loaded with. *)

MaxInvoices == 2

StatusGenerate ==
    /\ Len(invoices) < MaxInvoices
    /\ \E s \in Sessions, dbOk \in BOOLEAN :
          HandleGenerateInvoice(s, "h1", 1, 2, TRUE, dbOk, TRUE)
    /\ UNCHANGED <<adminTables, authVars, tickets, req, inflight>>

StatusSend ==
    /\ \E s \in Sessions, i \in 1..Len(invoices), dbOk \in BOOLEAN : HandleSendInvoice(s, i, dbOk)
    /\ UNCHANGED <<adminTables, authVars, tickets, req, inflight>>

StatusMarkAsPaid ==
    /\ \E s \in Sessions, i \in 1..Len(invoices), dbOk \in BOOLEAN : HandleMarkAsPaid(s, i, dbOk)
    /\ UNCHANGED <<adminTables, authVars, tickets, req, inflight>>

StatusReload ==
    /\ \E s \in Sessions : Reload(s, TRUE)
    /\ UNCHANGED <<adminTables, authVars, tickets, req, inflight>>

NextInvoiceStatus == StatusGenerate \/ StatusSend \/ StatusMarkAsPaid \/ StatusReload

SpecInvoiceStatus == InitBilling /\ [][NextInvoiceStatus]_vars

----------------------------------------------------------------------------
(* Specification of the invoice snapshot: one admin session generates, sends,
   settles and downloads invoices for hospital h1 while h1's diagnoses are
   created and deleted. *)

MaxSnapshots == 2

\* The diagnosis that comes and goes; the legacy row d3 stays.
SnapshotDiagIds == {"d1"}

\* Periods of the invoice form: the whole calendar, and the same dates inverted
\* (the form has two independent date pickers).
SnapshotPeriods == {<<1, 2>>, <<2, 1>>}

SnapshotCreate ==
    /\ \E d \in SnapshotDiagIds : HandleCreateDiagnosis(d, "u1", TRUE, TRUE, TRUE, TRUE, TRUE)
    /\ UNCHANGED <<adminTables, authVars, tickets, req, inflight>>

SnapshotDelete ==
    /\ \E d \in SnapshotDiagIds : HandleDeleteDiagnosis(d, TRUE, TRUE)
    /\ UNCHANGED <<adminTables, authVars, tickets, req, inflight>>

SnapshotGenerate ==
    /\ Len(invoices) < MaxSnapshots
    /\ \E h \in {"h1", ""}, p \in SnapshotPeriods, datesChosen, dbOk \in BOOLEAN :
          HandleGenerateInvoice("a1", h, p[1], p[2], datesChosen, dbOk, TRUE)
    /\ UNCHANGED <<adminTables, authVars, tickets, req, inflight>>

SnapshotSend ==
    /\ \E i \in 1..Len(invoices) : HandleSendInvoice("a1", i, TRUE)
    /\ UNCHANGED <<adminTables, authVars, tickets, req, inflight>>

SnapshotMarkAsPaid ==
    /\ \E i \in 1..Len(invoices) : HandleMarkAsPaid("a1", i, TRUE)
    /\ UNCHANGED <<adminTables, authVars, tickets, req, inflight>>

SnapshotDownload ==
    /\ \E i \in 1..Len(invoices) : HandleDownloadInvoice("a1", i)
    /\ UNCHANGED <<adminTables, authVars, tickets, req, inflight>>

NextInvoiceSnapshot ==
    \/ SnapshotCreate \/ SnapshotDelete \/ SnapshotGenerate
    \/ SnapshotSend \/ SnapshotMarkAsPaid \/ SnapshotDownload

SpecInvoiceSnapshot == InitBilling /\ [][NextInvoiceSnapshot]_vars

\* C2: no step - creating or deleting a diagnosis, sending an invoice, marking it
\* paid, rendering it, generating another invoice - changes the total_amount or
\* the details snapshot of an invoice that already exists, nor its id, number,
\* hospital or period; only its status may change.
C2_SnapshotFrozen ==
    [][/\ Len(invoices') >= Len(invoices)
       /\ \A i \in 1..Len(invoices) :
             invoices'[i] = [invoices[i] EXCEPT !.status = invoices'[i].status]]_vars

\* A paid invoice still lists a diagnosis that has since been deleted, and its
\* PDF has just been rendered from it.
C2_Witness ==
    \E i \in 1..Len(invoices) :
        /\ invoices[i].status = "paid"
        /\ invoices[i].total_amount > 0
        /\ \E k \in 1..Len(invoices[i].details.diagnoses) :
              invoices[i].details.diagnoses[k].id \notin RowIds(diagnoses)
        /\ resp = UiResult("downloadInvoice", FALSE)
        /\ rendered = GenerateInvoiceHTML(invoices[i])

\* The two generations were asked for the same hospital and dates and saw the
\* same diagnoses table.
SameGeneration(i, j) ==
    /\ genLog[i].hospital = genLog[j].hospital
    /\ genLog[i].startDate = genLog[j].startDate
    /\ genLog[i].endDate = genLog[j].endDate
    /\ genLog[i].rows = genLog[j].rows

C20_InvalidPeriodRejected ==
    [][/\ \A i \in 1..Len(invoices') : invoices'[i].start_date <= invoices'[i].end_date
       /\ (Len(genLog') > Len(genLog) /\ genLog'[Len(genLog')].startDate >
                                         genLog'[Len(genLog')].endDate)
            => resp'.error]_vars

----------------------------------------------------------------------------
(* Specification of the admin API: requests carrying no session, the session of
   the regular user u1 or the session of the administrator u2 pass the
   middleware and reach the route handlers. Both stored diagnoses were
   submitted by u1, one for each hospital. *)

Callers == {NoSession} \cup UserIds

\* The middleware answered the request itself.
Intercepted(caller, pathname) == Middleware(pathname, caller, users).op = "redirect"

ApiDeleteHospital ==
    /\ \E caller \in Callers, h \in HospitalPool, dbOk \in BOOLEAN :
          /\ req' = Request(caller, "deleteHospital", h, ~dbOk)
          /\ IF Intercepted(caller, ApiAdminHospitals)
             THEN resp' = Middleware(ApiAdminHospitals, caller, users) /\ UNCHANGED adminTables
             ELSE HandleDeleteHospital(h, dbOk)
    /\ UNCHANGED <<billingVars, authVars, tickets, inflight>>

ApiCreateHospital ==
    /\ \E caller \in Callers, code \in {"HSP-00001", "HSP-00003"} :
          /\ req' = Request(caller, "createHospital", "h3", FALSE)
          /\ IF Intercepted(caller, ApiAdminHospitals)
             THEN resp' = Middleware(ApiAdminHospitals, caller, users) /\ UNCHANGED adminTables
             ELSE HandleCreateHospital("h3", TRUE, code, TRUE)
    /\ UNCHANGED <<billingVars, authVars, tickets, inflight>>

ApiUpdateUser ==
    /\ \E caller \in Callers, operation \in {"disable", "enable"} :
          /\ req' = Request(caller, operation, "u1", FALSE)
          /\ IF Intercepted(caller, ApiAdminUsers("u1"))
             THEN resp' = Middleware(ApiAdminUsers("u1"), caller, users) /\ UNCHANGED adminTables
             ELSE HandleUpdateUser("u1", operation, FALSE, TRUE, TRUE)
    /\ UNCHANGED <<billingVars, authVars, tickets, inflight>>

ApiDeleteUser ==
    /\ \E caller \in Callers, u \in UserIds :
          /\ req' = Request(caller, "deleteUser", u, FALSE)
          /\ IF Intercepted(caller, ApiAdminUsers(u))
             THEN resp' = Middleware(ApiAdminUsers(u), caller, users) /\ UNCHANGED adminTables
             ELSE HandleDeleteUser(u, TRUE, TRUE, TRUE)
    /\ UNCHANGED <<billingVars, authVars, tickets, inflight>>

ApiDeleteDiagnosis ==
    /\ \E caller \in Callers, d \in {"d3", "d4"} :
          /\ req' = Request(caller, "deleteDiagnosis", d, FALSE)
          /\ IF Intercepted(caller, ApiAdminDiagnoses)
             THEN resp' = Middleware(ApiAdminDiagnoses, caller, users) /\ UNCHANGED billingVars
             ELSE HandleDeleteDiagnosis(d, TRUE, TRUE)
    /\ UNCHANGED <<adminTables, authVars, tickets, inflight>>

\* An admin page: the middleware, then the page's own check of session and is_admin.
AdminPage ==
    /\ \E caller \in Callers, page \in AdminPages :
          /\ req' = Request(caller, "page", page, FALSE)
          /\ resp' = IF Intercepted(caller, page) THEN Middleware(page, caller, users)
                     ELSE IF caller = NoSession THEN Redirect(LoginPath)
                     ELSE IF ~IsAdminUser(users, caller) THEN Redirect(<<"unauthorized">>)
                     ELSE Response("page", 200)
    /\ UNCHANGED <<billingVars, adminTables, authVars, tickets, inflight>>

InitAdminApi ==
    /\ InitAdmin
    /\ diagnoses = LegacyRows \cup {DiagnosisRow("d4", "u1", "analysis")}
    /\ usedDiagIds = {"d3", "d4"}
    /\ images = {"d3", "d4"}
    /\ aiCalls = {"d3", "d4"}
    /\ invoices = <<>>
    /\ views = [s \in Sessions |-> <<>>]
    /\ selection = DefaultSelection
    /\ billingData = PageBillingData(diagnoses, TRUE)
    /\ rendered = RenderBilling(billingData)
    /\ genLog = <<>>
    /\ resp = NoResponse

NextAdminApi ==
    \/ ApiDeleteHospital \/ ApiCreateHospital \/ ApiUpdateUser
    \/ ApiDeleteUser \/ ApiDeleteDiagnosis \/ AdminPage

SpecAdminApi == InitAdminApi /\ [][NextAdminApi]_vars

C6_WitnessDeleted ==
    /\ req.op = "deleteHospital" /\ req.target = "h2" /\ ~req.fault
    /\ resp = Response("deleteHospital", 200)
    /\ "h2" \notin DOMAIN hospitalTable

\* C10: a request to an admin page or admin API made with the session of a user
\* who is not an admin is answered with 403 or a redirect and changes no table.
C10_AdminPathsAdminOnly ==
    [][(req'.caller # NoSession /\ ~IsAdminUser(users, req'.caller)) =>
         /\ resp'.status \in {403, 307}
         /\ UNCHANGED <<hospitalTable, users, authAccounts, diagnoses, images, tickets>>]_vars

----------------------------------------------------------------------------
(* Specification of sign-in: the user u1 signs in and out from one browser
   while the administrator disables and enables the account, through the
   service or through the users API. *)

AuthSignIn ==
    /\ \E passwordOk, securityOk \in BOOLEAN, hospitalId \in Hospitals \cup {""} :
          SignIn("u1", passwordOk, hospitalId, securityOk)
    /\ UNCHANGED <<billingVars, adminTables, tickets, inflight>>

AuthSignOut == SignOut /\ UNCHANGED <<billingVars, adminTables, tickets, inflight>>

AuthAttemptsExpire == AttemptsExpire("u1") /\ UNCHANGED <<billingVars, adminTables, tickets, inflight>>

AuthDisableUser ==
    /\ \E dbOk, authOk \in BOOLEAN :
          /\ DisableUser("u1", dbOk, authOk)
          /\ req' = Request("u2", "disableUser", "u1", ~(dbOk /\ authOk))
    /\ UNCHANGED <<billingVars, authVars, tickets, inflight>>

AuthEnableUser ==
    /\ \E dbOk, authOk \in BOOLEAN :
          /\ EnableUser("u1", dbOk, authOk)
          /\ req' = Request("u2", "enableUser", "u1", ~(dbOk /\ authOk))
    /\ UNCHANGED <<billingVars, authVars, tickets, inflight>>

AuthUpdateUser ==
    /\ \E operation \in UserOperations, dbOk, authOk \in BOOLEAN :
          /\ HandleUpdateUser("u1", operation, FALSE, dbOk, authOk)
          /\ req' = Request("u2", operation, "u1", ~(dbOk /\ authOk))
    /\ UNCHANGED <<billingVars, authVars, tickets, inflight>>

NextAuth ==
    \/ AuthSignIn \/ AuthSignOut \/ AuthAttemptsExpire
    \/ AuthDisableUser \/ AuthEnableUser \/ AuthUpdateUser

SpecAuth == InitBilling /\ [][NextAuth]_vars

\* The sign-in of this step is for a user whose row exists and has is_disabled = d.
SignInOf(d) ==
    /\ req'.op = "signIn"
    /\ req'.target \in DOMAIN users
    /\ users[req'.target].is_disabled = d

\* The sign-in of this step is made by a user who was disabled and is enabled
\* again, with the right password, fewer than 5 recent failed attempts and a
\* security service that answers.
ReenabledSignIn ==
    /\ SignInOf(FALSE)
    /\ req'.target \in wasDisabled
    /\ req'.password /\ req'.target \in DOMAIN authAccounts
    /\ ~req'.fault
    /\ failedAttempts[req'.target] < LockoutThreshold

C7_WitnessDisabled ==
    /\ req.op = "signIn" /\ req.target = "u1" /\ req.password /\ ~req.fault
    /\ users["u1"].is_disabled
    /\ resp = SignInError("Your account has been disabled")
    /\ session = NoSession

\* This step is a sign-in for an email that has reached the lockout threshold.
LockedOutSignIn ==
    /\ req'.op = "signIn"
    /\ failedAttempts[req'.target] >= LockoutThreshold

\* The credentials of this step's sign-in were not submitted: no attempt is
\* recorded or cleared and no session is established.
NotSubmitted == failedAttempts' = failedAttempts /\ session' = NoSession

\* C24 as stated: a sign-in for an email with 5 or more recent failed attempts
\* returns the lockout error and does not submit the credentials.
C24_LockoutBlocksSignIn ==
    [][LockedOutSignIn => (resp' = SignInError(TooManyAttempts) /\ NotSubmitted)]_vars

\* C24, amended: a sign-in for an email with 5 or more recent failed attempts
\* does not submit the credentials; it returns the lockout error when the
\* security check answers and "Security check failed" when it does not.
C24_LockoutBlocksWhenCheckAnswers ==
    [][LockedOutSignIn =>
          /\ NotSubmitted
          /\ resp' = IF req'.fault THEN SignInError("Security check failed")
                     ELSE SignInError(TooManyAttempts)]_vars

\* u1 has five failed attempts and a sign-in with the right password has just
\* been refused with the lockout error.
C24_Witness ==
    /\ req.op = "signIn" /\ req.target = "u1" /\ req.password /\ ~req.fault
    /\ failedAttempts["u1"] = LockoutThreshold
    /\ resp = SignInError(TooManyAttempts)
    /\ session = NoSession

----------------------------------------------------------------------------
(* Specification of the support tickets: the administrator u2 opens a ticket
   for the user u1, both add responses through the support service, and the
   ticket is updated and answered through /api/admin/support/[id]. *)

MaxResponses == 2

ResponseTexts == {"r1", "r2"}

TicketStatusInputs == {"open", "in-progress", "resolved"}

TicketRequest(caller, op, target, fault, isAdminResponse) ==
    [caller |-> caller, op |-> op, target |-> target, fault |-> fault,
     isAdminResponse |-> isAdminResponse]

\* Room for one more response on the ticket, if there is such a ticket.
RoomForResponse(ticketId) ==
    ticketId \in DOMAIN tickets => Len(tickets[ticketId].responses) < MaxResponses

TicketCreate ==
    /\ \E valid \in BOOLEAN, priority \in {"", "high"} :
          /\ req' = TicketRequest("u2", "createTicket", "t1", ~valid, FALSE)
          /\ CreateSupportTicketForUser("t1", "u1", valid, "", priority, TRUE)
    /\ UNCHANGED <<billingVars, adminTables, authVars, inflight>>

TicketUpdateStatus ==
    /\ \E status \in TicketStatusInputs, adminNotes \in {"", "note"} :
          /\ req' = TicketRequest("u2", "updateTicketStatus", "t1", FALSE, FALSE)
          /\ UpdateSupportTicketStatus("t1", status, adminNotes, TRUE)
    /\ UNCHANGED <<billingVars, adminTables, authVars, inflight>>

TicketAddResponse ==
    /\ RoomForResponse("t1")
    /\ \E response \in ResponseTexts, isAdminResponse \in BOOLEAN, dbOk \in BOOLEAN :
          /\ req' = TicketRequest(IF isAdminResponse THEN "u2" ELSE "u1", "addResponse",
                                  "t1", ~dbOk, isAdminResponse)
          /\ AddSupportTicketResponse("t1", response, isAdminResponse, dbOk)
    /\ UNCHANGED <<billingVars, adminTables, authVars, inflight>>

\* PATCH /api/admin/support/[id]
ApiUpdateTicket ==
    /\ \E caller \in Callers, status \in {Undefined, "resolved"},
          priority \in {Undefined, "low"} :
          /\ req' = TicketRequest(caller, "updateTicket", "t1", FALSE, FALSE)
          /\ IF Intercepted(caller, ApiAdminSupport("t1"))
             THEN resp' = Middleware(ApiAdminSupport("t1"), caller, users) /\ UNCHANGED tickets
             ELSE HandleUpdateTicket("t1", [status |-> status, priority |-> priority,
                                            adminNotes |-> Undefined], TRUE)
    /\ UNCHANGED <<billingVars, adminTables, authVars, inflight>>

\* POST /api/admin/support/[id]: the exported handler receives the route
\* context as its second argument, whose id is undefined.
ApiAddResponse ==
    /\ RoomForResponse("t1")
    /\ \E caller \in Callers, response \in ResponseTexts \cup {""}, dbOk \in BOOLEAN :
          /\ req' = TicketRequest(caller, "addResponse", "t1", ~dbOk, TRUE)
          /\ IF Intercepted(caller, ApiAdminSupport("t1"))
             THEN resp' = Middleware(ApiAdminSupport("t1"), caller, users) /\ UNCHANGED tickets
             ELSE HandleAddResponse("t1", response, Undefined, dbOk)
    /\ UNCHANGED <<billingVars, adminTables, authVars, inflight>>

NextTicket ==
    \/ TicketCreate \/ TicketUpdateStatus \/ TicketAddResponse
    \/ ApiUpdateTicket \/ ApiAddResponse

SpecTicket == InitBilling /\ [][NextTicket]_vars

\* A step in which an add-response request was carried out on an existing ticket.
ResponseAdded ==
    /\ req'.op = "addResponse" /\ resp'.op = "addResponse" /\ ~resp'.error
    /\ req'.target \in DOMAIN tickets

\* C8: a response that is added grows the ticket's list by exactly one entry;
\* an admin response on an open ticket moves the ticket to in-progress, and a
\* response of the user leaves the status as it was.
C8_AdminResponseStartsProgress ==
    [][ResponseAdded =>
         LET t == req'.target
         IN /\ Len(tickets'[t].responses) = Len(tickets[t].responses) + 1
            /\ (req'.isAdminResponse /\ tickets[t].status = "open")
                  => tickets'[t].status = "in-progress"
            /\ ~req'.isAdminResponse => tickets'[t].status = tickets[t].status]_vars

\* C9: no ticket disappears, and the responses a ticket had before a step are
\* a prefix of the responses it has after the step, in the same order.
C9_ResponsesAppendOnly ==
    [][\A t \in DOMAIN tickets :
          /\ t \in DOMAIN tickets'
          /\ IsPrefix(tickets[t].responses, tickets'[t].responses)]_vars

\* A second response has just been added behind a different first one through the API.
C9_Witness ==
    /\ req.op = "addResponse" /\ resp = Response("addResponse", 200)
    /\ "t1" \in DOMAIN tickets
    /\ Len(tickets["t1"].responses) = 2
    /\ tickets["t1"].responses[1].content # tickets["t1"].responses[2].content

\* A ticket holding two responses has just been updated through the API.
C9_WitnessUpdate ==
    /\ req.op = "updateTicket" /\ resp = Response("updateTicket", 200)
    /\ "t1" \in DOMAIN tickets
    /\ Len(tickets["t1"].responses) = 2
    /\ tickets["t1"].status = "resolved"

----------------------------------------------------------------------------
(* Result policy of the service functions: what a function hands to its
   caller when one of the calls it makes fails. *)

\* The function returned an object; error tells whether it carries an error value.
ServiceResult(op, error) == [op |-> op, status |-> 0, error |-> error, thrown |-> FALSE]

\* The function did not return: an exception reached the caller.
Thrown(op) == [op |-> op, status |-> 0, error |-> FALSE, thrown |-> TRUE]

IsThrown(r) == "thrown" \in DOMAIN r /\ r.thrown

\* getAllDiagnoses: cookies() is awaited before the try block; the query is
\* made inside it.
GetAllDiagnoses(cookiesOk, queryOk) ==
    IF ~cookiesOk THEN Thrown("getAllDiagnoses")
    ELSE IF ~queryOk THEN ServiceResult("getAllDiagnoses", TRUE)
    ELSE ServiceResult("getAllDiagnoses", FALSE)

\* getSystemStats: six queries inside one try block, each error rethrown;
\* failingQuery is the first query that fails, 0 for none.
SystemStatsQueries == 6

GetSystemStats(failingQuery) ==
    IF failingQuery \in 1..SystemStatsQueries THEN ServiceResult("getSystemStats", TRUE)
    ELSE ServiceResult("getSystemStats", FALSE)

\* getSupportTickets: with a hospital filter the hospital's users are read
\* first and the error of that query is not looked at; no users (or no data)
\* returns the empty page with error null.
GetSupportTickets(hospitalId, usersOk, queryOk) ==
    LET hospitalUsers == IF usersOk THEN {u \in DOMAIN users : users[u].hospital_id = hospitalId}
                         ELSE {}
    IN IF hospitalId # "" /\ hospitalUsers = {}
       THEN ServiceResult("getSupportTickets", FALSE)
       ELSE IF ~queryOk THEN ServiceResult("getSupportTickets", TRUE)
       ELSE ServiceResult("getSupportTickets", FALSE)

\* createUser(userData): the lookup of an existing row ignores its error; the
\* auth account is created first, then the users row. The new user's email is
\* identified with the id.
CreateUser(userId, hospitalId, lookupOk, authOk, dbOk) ==
    /\ IF lookupOk /\ userId \in DOMAIN users
       THEN resp' = ServiceResult("createUser", TRUE) /\ UNCHANGED <<users, authAccounts>>
       ELSE IF ~authOk \/ userId \in DOMAIN authAccounts
       THEN resp' = ServiceResult("createUser", TRUE) /\ UNCHANGED <<users, authAccounts>>
       ELSE /\ authAccounts' = MapPut(authAccounts, userId, Account(FALSE))
            /\ IF ~dbOk \/ userId \in DOMAIN users
               THEN resp' = ServiceResult("createUser", TRUE) /\ UNCHANGED users
               ELSE /\ users' = MapPut(users, userId, UserRow(hospitalId, FALSE, FALSE))
                    /\ resp' = ServiceResult("createUser", FALSE)
    /\ UNCHANGED <<hospitalTable, usedHospitalIds, wasDisabled>>

\* deleteUser(userId) of the user management service.
DeleteUser(userId, countOk, authOk, dbOk) ==
    /\ IF ~countOk
       THEN resp' = ServiceResult("deleteUser", TRUE) /\ UNCHANGED <<users, authAccounts>>
       ELSE IF Cardinality({r \in diagnoses : r.user_id = userId}) > 0
       THEN resp' = ServiceResult("deleteUser", TRUE) /\ UNCHANGED <<users, authAccounts>>
       ELSE IF ~authOk
       THEN resp' = ServiceResult("deleteUser", TRUE) /\ UNCHANGED <<users, authAccounts>>
       ELSE /\ authAccounts' = [x \in DOMAIN authAccounts \ {userId} |-> authAccounts[x]]
            /\ IF ~dbOk
               THEN resp' = ServiceResult("deleteUser", TRUE) /\ UNCHANGED users
               ELSE /\ users' = [x \in DOMAIN users \ {userId} |-> users[x]]
                    /\ resp' = ServiceResult("deleteUser", FALSE)
    /\ UNCHANGED <<hospitalTable, usedHospitalIds, wasDisabled>>

\* signOut() with its calls allowed to fail: the result of auth.signOut() is
\* not looked at, cookies() is awaited outside any try block, and redirect()
\* ends the function.
SignOutWith(authOk, cookiesOk) ==
    /\ session # NoSession
    /\ session' = IF authOk THEN NoSession ELSE session
    /\ req' = Request(session, "signOut", "", ~(authOk /\ cookiesOk))
    /\ resp' = IF ~cookiesOk THEN Thrown("signOut") ELSE Redirect(LoginPath)
    /\ UNCHANGED failedAttempts

----------------------------------------------------------------------------
(* Specification of the service functions: the administrator u2 calls the
   listing, ticket and user functions, the user u1 signs in and out, and any
   call a function makes may fail. *)

SvcGetAllDiagnoses ==
    /\ \E cookiesOk \in BOOLEAN, queryOk \in BOOLEAN :
          /\ req' = Request("u2", "getAllDiagnoses", "", ~(cookiesOk /\ queryOk))
          /\ resp' = GetAllDiagnoses(cookiesOk, queryOk)
    /\ UNCHANGED <<billingVars, adminTables, authVars, tickets, inflight>>

SvcGetSystemStats ==
    /\ \E failingQuery \in 0..SystemStatsQueries :
          /\ req' = Request("u2", "getSystemStats", "", failingQuery # 0)
          /\ resp' = GetSystemStats(failingQuery)
    /\ UNCHANGED <<billingVars, adminTables, authVars, tickets, inflight>>

SvcGetSupportTickets ==
    /\ \E hospitalId \in {"", "h1", "h3"}, usersOk \in BOOLEAN, queryOk \in BOOLEAN :
          /\ req' = Request("u2", "getSupportTickets", hospitalId,
                            (hospitalId # "" /\ ~usersOk) \/ ~queryOk)
          /\ resp' = GetSupportTickets(hospitalId, usersOk, queryOk)
    /\ UNCHANGED <<billingVars, adminTables, authVars, tickets, inflight>>

SvcCreateTicket ==
    /\ \E dbOk \in BOOLEAN :
          /\ req' = Request("u2", "createTicket", "t1", ~dbOk)
          /\ CreateSupportTicketForUser("t1", "u1", TRUE, "", "", dbOk)
    /\ UNCHANGED <<billingVars, adminTables, authVars, inflight>>

SvcAddResponse ==
    /\ "t1" \in DOMAIN tickets
    /\ RoomForResponse("t1")
    /\ \E dbOk \in BOOLEAN :
          /\ req' = Request("u2", "addResponse", "t1", ~dbOk)
          /\ AddSupportTicketResponse("t1", "r1", TRUE, dbOk)
    /\ UNCHANGED <<billingVars, adminTables, authVars, inflight>>

SvcCreateUser ==
    /\ \E userId \in {"u1", "u3"}, lookupOk \in BOOLEAN, authOk \in BOOLEAN, dbOk \in BOOLEAN :
          /\ req' = Request("u2", "createUser", userId, ~(lookupOk /\ authOk /\ dbOk))
          /\ CreateUser(userId, "h1", lookupOk, authOk, dbOk)
    /\ UNCHANGED <<billingVars, authVars, tickets, inflight>>

SvcDeleteUser ==
    /\ \E userId \in {"u1", "u3"}, countOk \in BOOLEAN, authOk \in BOOLEAN, dbOk \in BOOLEAN :
          /\ userId \in DOMAIN users
          /\ req' = Request("u2", "deleteUser", userId, ~(countOk /\ authOk /\ dbOk))
          /\ DeleteUser(userId, countOk, authOk, dbOk)
    /\ UNCHANGED <<billingVars, authVars, tickets, inflight>>

SvcSignIn ==
    /\ \E passwordOk \in BOOLEAN, securityOk \in BOOLEAN :
          SignIn("u1", passwordOk, "", securityOk)
    /\ UNCHANGED <<billingVars, adminTables, tickets, inflight>>

SvcSignOut ==
    /\ \E authOk \in BOOLEAN, cookiesOk \in BOOLEAN : SignOutWith(authOk, cookiesOk)
    /\ UNCHANGED <<billingVars, adminTables, tickets, inflight>>

NextServices ==
    \/ SvcGetAllDiagnoses \/ SvcGetSystemStats \/ SvcGetSupportTickets
    \/ SvcCreateTicket \/ SvcAddResponse \/ SvcCreateUser \/ SvcDeleteUser
    \/ SvcSignIn \/ SvcSignOut

SpecServices == InitBilling /\ [][NextServices]_vars

\* C11: no service function throws to its caller, and whenever one of the
\* calls made by a function failed, the function returned an object carrying
\* an error value.
C11_ServicesReturnErrors ==
    /\ ~IsThrown(resp)
    /\ req.fault => resp.error

----------------------------------------------------------------------------
(* Specification of the hospitals API: create, update and delete requests of
   any caller for the hospitals h1, h2 and h3. *)

HospitalCodes == {"HSP-00001", "HSP-00002", "HSP-00003"}

HospitalsCreate ==
    /\ \E caller \in Callers, h \in HospitalPool, code \in HospitalCodes \cup {""},
          dbOk \in BOOLEAN :
          /\ req' = [Request(caller, "createHospital", h, ~dbOk) EXCEPT !.target = code]
          /\ IF Intercepted(caller, ApiAdminHospitals)
             THEN /\ h \in HospitalPool \ usedHospitalIds
                  /\ resp' = Middleware(ApiAdminHospitals, caller, users)
                  /\ UNCHANGED adminTables
             ELSE HandleCreateHospital(h, code # "", code, dbOk)
    /\ UNCHANGED <<billingVars, authVars, tickets, inflight>>

HospitalsUpdate ==
    /\ \E caller \in Callers, h \in HospitalPool, code \in HospitalCodes \cup {""},
          dbOk \in BOOLEAN :
          /\ req' = Request(caller, "updateHospital", h, ~dbOk)
          /\ IF Intercepted(caller, ApiAdminHospitals)
             THEN resp' = Middleware(ApiAdminHospitals, caller, users) /\ UNCHANGED adminTables
             ELSE HandleUpdateHospital(h, code # "", code, dbOk)
    /\ UNCHANGED <<billingVars, authVars, tickets, inflight>>

HospitalsDelete ==
    /\ \E caller \in Callers, h \in HospitalPool :
          /\ req' = Request(caller, "deleteHospital", h, FALSE)
          /\ IF Intercepted(caller, ApiAdminHospitals)
             THEN resp' = Middleware(ApiAdminHospitals, caller, users) /\ UNCHANGED adminTables
             ELSE HandleDeleteHospital(h, TRUE)
    /\ UNCHANGED <<billingVars, authVars, tickets, inflight>>

NextHospitals == HospitalsCreate \/ HospitalsUpdate \/ HospitalsDelete

SpecHospitals == InitAdminApi /\ [][NextHospitals]_vars

\* No two rows of the table carry the same code.
CodesUnique(table) ==
    \A a, b \in DOMAIN table : a # b => table[a].code # table[b].code

\* C12: a create request that reaches the handler with a code some hospital
\* already has is answered with an error and changes no row, and after every
\* step no two hospitals have the same code.
C12_HospitalCodesUnique ==
    [][/\ (/\ req'.op = "createHospital" /\ resp'.op = "createHospital"
           /\ \E x \in DOMAIN hospitalTable : hospitalTable[x].code = req'.target)
          => (resp'.error /\ hospitalTable' = hospitalTable)
       /\ CodesUnique(hospitalTable')]_vars

----------------------------------------------------------------------------
(* Specification of user deletion: any caller sends DELETE
   /api/admin/users/[id], the administrator calls deleteUser of the user
   management service, and diagnoses are deleted through the diagnoses API;
   every backend call of a delete may fail. u1 submitted both diagnoses. *)

UserDeleteApi ==
    /\ \E caller \in Callers, u \in UserIds, countOk \in BOOLEAN, authOk \in BOOLEAN,
          dbOk \in BOOLEAN :
          /\ req' = Request(caller, "deleteUser", u, ~(countOk /\ authOk /\ dbOk))
          /\ IF Intercepted(caller, ApiAdminUsers(u))
             THEN resp' = Middleware(ApiAdminUsers(u), caller, users) /\ UNCHANGED adminTables
             ELSE HandleDeleteUser(u, countOk, authOk, dbOk)
    /\ UNCHANGED <<billingVars, authVars, tickets, inflight>>

UserDeleteService ==
    /\ \E u \in UserIds, countOk \in BOOLEAN, authOk \in BOOLEAN, dbOk \in BOOLEAN :
          /\ req' = Request("u2", "deleteUser", u, ~(countOk /\ authOk /\ dbOk))
          /\ DeleteUser(u, countOk, authOk, dbOk)
    /\ UNCHANGED <<billingVars, authVars, tickets, inflight>>

UserDeleteDiagnosis ==
    /\ \E d \in {"d3", "d4"}, dbOk \in BOOLEAN :
          /\ req' = Request("u2", "deleteDiagnosis", d, ~dbOk)
          /\ HandleDeleteDiagnosis(d, TRUE, dbOk)
    /\ UNCHANGED <<adminTables, authVars, tickets, inflight>>

NextUserDelete == UserDeleteApi \/ UserDeleteService \/ UserDeleteDiagnosis

SpecUserDelete == InitAdminApi /\ [][NextUserDelete]_vars

\* The number of diagnoses a user submitted.
DiagnosesOf(userId) == Cardinality({r \in diagnoses : r.user_id = userId})

\* C13: a user delete that reaches the route handler or the service while the
\* user has at least one diagnosis is answered with an error and leaves the
\* auth accounts and the users table as they were.
C13_DeleteUserBlockedByDiagnoses ==
    [][(/\ req'.op = "deleteUser" /\ resp'.op = "deleteUser"
        /\ DiagnosesOf(req'.target) > 0)
         => (resp'.error /\ users' = users /\ authAccounts' = authAccounts)]_vars

\* The delete of u1 has just been refused with 400 because of u1's diagnoses.
C13_Witness ==
    /\ req.op = "deleteUser" /\ req.target = "u1" /\ ~req.fault
    /\ resp = Response("deleteUser", 400)
    /\ DiagnosesOf("u1") > 0
    /\ "u1" \in DOMAIN users /\ "u1" \in DOMAIN authAccounts

\* The service has just deleted u1 after both diagnoses were removed.
C13_WitnessDeleted ==
    /\ req.op = "deleteUser" /\ req.target = "u1"
    /\ resp = ServiceResult("deleteUser", FALSE)
    /\ DiagnosesOf("u1") = 0
    /\ "u1" \notin DOMAIN users /\ "u1" \notin DOMAIN authAccounts

----------------------------------------------------------------------------
(* Specification of the diagnosis routes: the user u1 submits the diagnosis d1
   with any combination of form fields, files and backend failures, and the
   diagnoses d1 and d3 are deleted through the admin API while the storage
   removal or the row delete may fail. *)

RequiredFields == {"patientName", "patientId", "ageRange", "scanType", "hospitalId"}

\* The submitted forms: complete, one required field missing, or empty.
FieldSets == {RequiredFields, {}} \cup {RequiredFields \ {f} : f \in RequiredFields}

\* The sizes of the files submitted under the keys images*.
FileLists == {<<>>, <<0>>, <<3>>, <<0, 3>>}

\* imageFiles: the submitted files of size > 0.
ImageFiles(files) == SelectSeq(files, LAMBDA size : size > 0)

\* What the inference service does: it answers, or connecting, fetching the
\* image or the prediction throws, or the answer carries no data.
AiOutcomes == {"answer", "connectFails", "fetchFails", "predictFails", "noData"}

\* The calls of the analysis sit in one try block; every outcome but an answer
\* ends in its catch.
AiThrows(outcome) == outcome # "answer"

\* DefaultConfidence is 0.85, ServiceConfidence the score of an answer, in hundredths.
DefaultConfidence == 85

ServiceConfidence == 90

\* aiAnalysisResults as stored with the row: the structured answer, or the
\* fallback written by the catch block.
AiAnalysisResults(ai) ==
    IF ai = "placeholder"
    THEN [confidence_score |-> 0, potential_conditions |-> <<>>,
          error |-> "Service temporarily unavailable"]
    ELSE [confidence_score |-> IF ServiceConfidence # 0 THEN ServiceConfidence
                               ELSE DefaultConfidence,
          potential_conditions |-> <<"condition">>, error |-> Undefined]

CreateRequest(d, fields, files, uploadOk, outcome, dbOk) ==
    [caller |-> "u1", op |-> "createDiagnosis", target |-> d,
     fault |-> ~uploadOk \/ AiThrows(outcome) \/ ~dbOk,
     fields |-> fields, files |-> files, uploadOk |-> uploadOk, ai |-> outcome, dbOk |-> dbOk]

DiagnosesCreate ==
    /\ \E fields \in FieldSets, files \in FileLists, uploadOk \in BOOLEAN,
          outcome \in AiOutcomes, dbOk \in BOOLEAN :
          /\ req' = CreateRequest("d1", fields, files, uploadOk, outcome, dbOk)
          /\ HandleCreateDiagnosis("d1", "u1", fields = RequiredFields, ImageFiles(files) # <<>>,
                                   uploadOk, ~AiThrows(outcome), dbOk)
    /\ UNCHANGED <<adminTables, authVars, tickets, inflight>>

DeleteRequest(d, rmOk, dbOk) ==
    [caller |-> "u2", op |-> "deleteDiagnosis", target |-> d, fault |-> ~(rmOk /\ dbOk),
     rmOk |-> rmOk, dbOk |-> dbOk]

DiagnosesDelete ==
    /\ \E d \in {"d1", "d3"}, rmOk \in BOOLEAN, dbOk \in BOOLEAN :
          /\ req' = DeleteRequest(d, rmOk, dbOk)
          /\ HandleDeleteDiagnosis(d, rmOk, dbOk)
    /\ UNCHANGED <<adminTables, authVars, tickets, inflight>>

NextDiagnoses == DiagnosesCreate \/ DiagnosesDelete

SpecDiagnoses == InitBilling /\ [][NextDiagnoses]_vars

\* C14: after a delete request for a diagnosis that had its row and its images,
\* the row exists exactly if the images exist: neither after a success, both
\* after a failure.
C14_DeleteCascadesToImages ==
    [][(/\ req'.op = "deleteDiagnosis" /\ resp'.op = "deleteDiagnosis"
        /\ req'.target \in RowIds(diagnoses) /\ req'.target \in images)
         => LET d == req'.target
            IN /\ (d \in RowIds(diagnoses')) <=> (d \in images')
               /\ ~resp'.error => (d \notin RowIds(diagnoses') /\ d \notin images')
               /\ resp'.error => (d \in RowIds(diagnoses') /\ d \in images')]_vars

\* The row a create request stored for its diagnosis, as a set (empty if none).
CreatedRows == {r \in diagnoses' \ diagnoses : r.id = req'.target}

\* C15: when the analysis fails in any of its calls while the form is valid and
\* the uploads and the insert succeed, the request is answered with success and
\* stores a row whose analysis is the placeholder: confidence score 0, no
\* potential conditions, an error marker.
C15_AiFailureStoresPlaceholder ==
    [][(/\ req'.op = "createDiagnosis"
        /\ req'.fields = RequiredFields /\ ImageFiles(req'.files) # <<>>
        /\ req'.uploadOk /\ req'.dbOk /\ AiThrows(req'.ai))
         => /\ resp' = Response("createDiagnosis", 200)
            /\ CreatedRows # {}
            /\ \A r \in CreatedRows :
                  LET a == AiAnalysisResults(r.ai)
                  IN /\ a.confidence_score = 0
                     /\ a.potential_conditions = <<>>
                     /\ a.error # Undefined]_vars

\* A diagnosis whose analysis could not be fetched has just been stored.
C15_Witness ==
    /\ req.op = "createDiagnosis" /\ req.ai = "fetchFails"
    /\ resp = Response("createDiagnosis", 200)
    /\ \E r \in diagnoses : r.id = "d1" /\ r.ai = "placeholder"
    /\ "d1" \in images

\* C16: a create request that lacks one of the required fields or carries no
\* non-empty image file is answered 400 and uploads nothing, calls no analysis
\* and stores no row.
C16_InvalidSubmissionRejected ==
    [][(/\ req'.op = "createDiagnosis"
        /\ (req'.fields # RequiredFields \/ ImageFiles(req'.files) = <<>>))
         => /\ resp' = Response("createDiagnosis", 400)
            /\ UNCHANGED <<images, aiCalls, diagnoses>>]_vars

\* A complete form with only an empty file has just been refused.
C16_Witness ==
    /\ req.op = "createDiagnosis" /\ req.fields = RequiredFields /\ req.files = <<0>>
    /\ resp = Response("createDiagnosis", 400)
    /\ "d1" \notin images /\ "d1" \notin aiCalls /\ "d1" \notin RowIds(diagnoses)

\* A form without the scan type and with a proper file has just been refused.
C16_WitnessMissingField ==
    /\ req.op = "createDiagnosis" /\ req.fields = RequiredFields \ {"scanType"}
    /\ req.files = <<3>>
    /\ resp = Response("createDiagnosis", 400)
    /\ "d1" \notin images /\ "d1" \notin aiCalls /\ "d1" \notin RowIds(diagnoses)

----------------------------------------------------------------------------
(* Specification of the invoice document: one stored invoice with any
   snapshot of up to MaxLineItems diagnoses and any recorded total is sent,
   marked as paid and downloaded by one admin session. *)

MaxLineItems == 3

\* The diagnosis entries a snapshot may hold; the type "" is a missing type.
SnapshotEntries ==
    [id : {"d1"}, diagnosisType : {"", "CT", "MRI"}, cost : {0, 50, 100}]

RECURSIVE SeqsUpTo(_, _)
SeqsUpTo(S, n) ==
    IF n = 0 THEN {<<>>}
    ELSE LET shorter == SeqsUpTo(S, n - 1)
         IN shorter \cup {Append(s, x) : s \in {t \in shorter : Len(t) = n - 1}, x \in S}

StoredInvoice(list, total) ==
    [id |-> 1, invoice_number |-> InvoiceNumber("h1", 1, 2, 1), hospital_id |-> "h1",
     start_date |-> 1, end_date |-> 2, total_amount |-> total, status |-> "pending",
     details |-> [hospitalName |-> HospitalName["h1"], diagnoses |-> list,
                  diagnosisCounts |-> EmptyMap, diagnosisCosts |-> EmptyMap,
                  totalDiagnoses |-> Len(list)]]

InitInvoiceHtml ==
    /\ InitAdmin
    /\ diagnoses = LegacyRows
    /\ usedDiagIds = LegacyIds
    /\ images = LegacyIds
    /\ aiCalls = LegacyIds
    /\ \E list \in SeqsUpTo(SnapshotEntries, MaxLineItems), total \in {0, 150} :
          invoices = <<StoredInvoice(list, total)>>
    /\ views = [s \in Sessions |-> GetInvoices(invoices)]
    /\ selection = DefaultSelection
    /\ billingData = PageBillingData(LegacyRows, TRUE)
    /\ rendered = RenderBilling(billingData)
    /\ genLog = <<>>
    /\ resp = NoResponse

HtmlDownload ==
    /\ HandleDownloadInvoice("a1", 1)
    /\ UNCHANGED <<adminTables, authVars, tickets, req, inflight>>

HtmlSend ==
    /\ HandleSendInvoice("a1", 1, TRUE)
    /\ UNCHANGED <<adminTables, authVars, tickets, req, inflight>>

HtmlMarkAsPaid ==
    /\ HandleMarkAsPaid("a1", 1, TRUE)
    /\ UNCHANGED <<adminTables, authVars, tickets, req, inflight>>

NextInvoiceHtml == HtmlDownload \/ HtmlSend \/ HtmlMarkAsPaid

SpecInvoiceHtml == InitInvoiceHtml /\ [][NextInvoiceHtml]_vars

\* The type a snapshot entry is billed under.
TypeOfEntry(e) == IF e.diagnosisType = "" THEN "Other" ELSE e.diagnosisType

\* The positions of the snapshot list that hold an entry of the type.
EntriesOfType(list, type) == {i \in 1..Len(list) : TypeOfEntry(list[i]) = type}

\* C17: in a rendered invoice every type of the snapshot (a missing type being
\* "Other") has exactly one row, no row has another type, and each row's
\* quantity is the number of snapshot entries of its type, its amount the sum
\* of their costs and its unit price the amount divided by the quantity.
C17_LineItemsFromSnapshot ==
    resp.op = "downloadInvoice" =>
        LET list == invoices[1].details.diagnoses
            rows == rendered.rows
            types == {TypeOfEntry(list[i]) : i \in 1..Len(list)}
        IN /\ \A type \in types : Cardinality({k \in 1..Len(rows) : rows[k].type = type}) = 1
           /\ \A k \in 1..Len(rows) :
                 LET at == EntriesOfType(list, rows[k].type)
                     amount == SumOver([i \in at |-> list[i].cost], at)
                 IN /\ rows[k].type \in types
                    /\ rows[k].quantity = Cardinality(at)
                    /\ rows[k].amount = amount
                    /\ rows[k].unitPrice = JsDiv(amount, Cardinality(at))

\* A paid invoice with two untyped entries and one CT entry, whose recorded
\* total differs from the sum of the entries, has just been rendered.
C17_Witness ==
    /\ resp.op = "downloadInvoice"
    /\ invoices[1].status = "paid" /\ invoices[1].total_amount = 0
    /\ Len(invoices[1].details.diagnoses) = 3
    /\ Len(rendered.rows) = 2
    /\ \E k \in 1..2 : rendered.rows[k].type = "Other" /\ rendered.rows[k].quantity = 2
                       /\ rendered.rows[k].amount = 150

----------------------------------------------------------------------------
(* PDF renderer: generateInvoicePDF (placing the rendered canvas on pages) *)

\* An A4 page in millimetres, and the canvas of the 800px container at scale 2.
PdfWidth == 210

PdfHeight == 297

CanvasWidth == 1600

\* Exact fractions n / d with d > 0.
Frac(n, d) == [num |-> n, den |-> d]

FracLess(a, b) == a.num * b.den < b.num * a.den

FracTimes(k, a) == Frac(k * a.num, a.den)

FracMinus(a, k) == Frac(a.num - k * a.den, a.den)

\* Math.min(pdfWidth / imgWidth, pdfHeight / imgHeight)
PdfRatio(imgWidth, imgHeight) ==
    LET byWidth == Frac(PdfWidth, imgWidth)
        byHeight == Frac(PdfHeight, imgHeight)
    IN IF FracLess(byHeight, byWidth) THEN byHeight ELSE byWidth

\* while (remainingHeight > pdfHeight) { addPage; addImage at -currentPosition; ... }
RECURSIVE AddPages(_, _, _, _)
AddPages(pages, image, remainingHeight, currentPosition) ==
    IF FracLess(Frac(PdfHeight, 1), remainingHeight)
    THEN AddPages(Append(pages, [image EXCEPT !.y = 0 - currentPosition]), image,
                  FracMinus(remainingHeight, PdfHeight), currentPosition + PdfHeight)
    ELSE pages

\* The pages of the document: the whole canvas is placed on the first page,
\* scaled by ratio; further pages are added while the scaled height exceeds
\* the page height.
GenerateInvoicePDF(invoice, imgHeight) ==
    LET ratio == PdfRatio(CanvasWidth, imgHeight)
        image == [width |-> FracTimes(CanvasWidth, ratio), height |-> FracTimes(imgHeight, ratio),
                  y |-> 0]
        first == <<image>>
    IN [html |-> GenerateInvoiceHTML(invoice),
        canvasHeight |-> imgHeight,
        pages |-> IF FracLess(Frac(PdfHeight, 1), image.height)
                  THEN AddPages(first, image, image.height, PdfHeight)
                  ELSE first]

----------------------------------------------------------------------------
(* Specification of the invoice PDF: one stored invoice is downloaded while
   its rendered content takes any height of up to MaxCanvasSteps steps. *)

MaxCanvasSteps == 120

CanvasStep == 50

CanvasHeights == {CanvasStep * k : k \in 1..MaxCanvasSteps}

InitInvoicePdf ==
    /\ InitAdmin
    /\ diagnoses = LegacyRows
    /\ usedDiagIds = LegacyIds
    /\ images = LegacyIds
    /\ aiCalls = LegacyIds
    /\ invoices = <<StoredInvoice(<<[id |-> "d1", diagnosisType |-> "CT", cost |-> 100]>>, 100)>>
    /\ views = [s \in Sessions |-> GetInvoices(invoices)]
    /\ selection = DefaultSelection
    /\ billingData = PageBillingData(LegacyRows, TRUE)
    /\ rendered = RenderBilling(billingData)
    /\ genLog = <<>>
    /\ resp = NoResponse

\* "Download" button with the height html2canvas gives the content.
PdfDownload ==
    /\ \E imgHeight \in CanvasHeights :
          /\ rendered' = GenerateInvoicePDF(views["a1"][1], imgHeight)
          /\ resp' = UiResult("downloadPdf", FALSE)
    /\ UNCHANGED <<diagnoses, usedDiagIds, images, aiCalls, invoices, views, selection,
                   billingData, genLog>>
    /\ UNCHANGED <<adminTables, authVars, tickets, req, inflight>>

PdfMarkAsPaid ==
    /\ HandleMarkAsPaid("a1", 1, TRUE)
    /\ UNCHANGED <<adminTables, authVars, tickets, req, inflight>>

NextInvoicePdf == PdfDownload \/ PdfMarkAsPaid

SpecInvoicePdf == InitInvoicePdf /\ [][NextInvoicePdf]_vars

\* The content, shown at full page width, is taller than one page.
TallerThanOnePage(imgHeight) == imgHeight * PdfWidth > PdfHeight * CanvasWidth

\* C18: a document whose content is taller than one page has more than one
\* page, and its content is placed at full page width.
C18_TallContentSplitAcrossPages ==
    (resp.op = "downloadPdf" /\ TallerThanOnePage(rendered.canvasHeight)) =>
        /\ Len(rendered.pages) > 1
        /\ \A k \in 1..Len(rendered.pages) :
              rendered.pages[k].width.num = PdfWidth * rendered.pages[k].width.den

----------------------------------------------------------------------------
(* Paginated lists: GET /api/admin/hospitals, /api/admin/users and
   /api/admin/support *)

\* The order of the rows under the sort column, ascending.
HospitalSortOrder == <<"h1", "h2", "h3">>

UserSortOrder == <<"u1", "u2", "u3">>

TicketSortOrder == <<"t1", "t2", "t3">>

RECURSIVE Reverse(_)
Reverse(s) == IF s = <<>> THEN <<>> ELSE Append(Reverse(Tail(s)), Head(s))

\* query.order(sortBy, { ascending }): the ids of the matching rows in order.
OrderBy(matching, order, ascending) ==
    LET asc == SelectSeq(order, LAMBDA id : id \in matching)
    IN IF ascending THEN asc ELSE Reverse(asc)

\* A range that leaves out the row at position to.
RangeExclusive(list, from, to) ==
    IF from + 1 > Len(list) THEN <<>>
    ELSE SubSeq(list, from + 1, IF to < Len(list) THEN to ELSE Len(list))

\* query.range(from, to): the rows at the zero-based positions from..to, both
\* included, as far as there are rows.
Range(list, from, to) ==
    IF from + 1 > Len(list) THEN <<>>
    ELSE SubSeq(list, from + 1, IF to + 1 < Len(list) THEN to + 1 ELSE Len(list))

\* Math.ceil(count / limit)
Ceil(count, limit) ==
    IF count % limit = 0 THEN count \div limit ELSE (count \div limit) + 1

\* The JSON body of a list response: count || 0 and count ? ceil : 0.
ListResponse(op, data, count, page, limit) ==
    [op |-> op, status |-> 200, error |-> FALSE, rows |-> data,
     total |-> count, page |-> page, limit |-> limit,
     totalPages |-> IF count # 0 THEN Ceil(count, limit) ELSE 0]

\* The page of a query: order, range, exact count; 500 when the query fails.
ListPage(op, matching, order, ascending, page, limit, dbOk) ==
    LET offset == (page - 1) * limit
        sorted == OrderBy(matching, order, ascending)
    IN IF ~dbOk THEN Response(op, 500)
       ELSE ListResponse(op, Range(sorted, offset, offset + limit - 1), Len(sorted), page, limit)

\* handleGetHospitals: the search term is matched against name, code and address.
HandleGetHospitals(page, limit, ascending, search, dbOk) ==
    LET matching == {h \in DOMAIN hospitalTable : search = "" \/ hospitalTable[h].code = search}
    IN resp' = ListPage("listHospitals", matching, HospitalSortOrder, ascending, page, limit, dbOk)

\* handleGetUsers: filters hospitalId and isAdmin ("true", "false" or absent).
HandleGetUsers(page, limit, ascending, hospitalId, isAdmin, dbOk) ==
    LET matching == {u \in DOMAIN users :
                        /\ hospitalId = "" \/ users[u].hospital_id = hospitalId
                        /\ isAdmin = "true" => users[u].is_admin
                        /\ isAdmin = "false" => ~users[u].is_admin}
    IN resp' = ListPage("listUsers", matching, UserSortOrder, ascending, page, limit, dbOk)

\* The support ticket list: filters status and hospitalId, the latter through
\* the users of the hospital (no such users: the empty page).
HandleGetTickets(page, limit, ascending, status, hospitalId, dbOk) ==
    LET hospitalUsers == {u \in DOMAIN users : users[u].hospital_id = hospitalId}
        matching == {t \in DOMAIN tickets :
                        /\ status = "" \/ tickets[t].status = status
                        /\ hospitalId = "" \/ tickets[t].user_id \in hospitalUsers}
    IN resp' = IF hospitalId # "" /\ hospitalUsers = {}
               THEN ListResponse("listTickets", <<>>, 0, page, limit)
               ELSE ListPage("listTickets", matching, TicketSortOrder, ascending, page, limit, dbOk)

----------------------------------------------------------------------------
(* Specification of the paginated lists: the administrator pages through the
   hospitals, the users and three support tickets with pages and limits of
   1..MaxPage and 1..MaxLimit, while a hospital and a user are added and a
   ticket is resolved. *)

MaxPage == 3

MaxLimit == 3

TicketRow(userId, status) ==
    [user_id |-> userId, status |-> status, priority |-> "medium", admin_notes |-> Null,
     responses |-> <<>>]

\* The tables of InitAdmin with three tickets: two of u1, one of u2, all open.
InitLists ==
    /\ hospitalTable = [h \in {"h1", "h2"} |-> HospitalRow(h, CodeOf[h])]
    /\ usedHospitalIds = {"h1", "h2"}
    /\ users = [u \in UserIds |-> IF u = "u1" THEN UserRow("h1", FALSE, FALSE)
                                   ELSE UserRow("h2", TRUE, FALSE)]
    /\ authAccounts = [u \in UserIds |-> Account(FALSE)]
    /\ wasDisabled = {}
    /\ session = NoSession
    /\ failedAttempts = [u \in UserIds |-> 0]
    /\ inflight = EmptyMap
    /\ tickets = [t \in {"t1", "t2", "t3"} |->
                    IF t = "t2" THEN TicketRow("u2", "open") ELSE TicketRow("u1", "open")]
    /\ req = NoRequest
    /\ diagnoses = LegacyRows
    /\ usedDiagIds = LegacyIds
    /\ images = LegacyIds
    /\ aiCalls = LegacyIds
    /\ invoices = <<>>
    /\ views = [s \in Sessions |-> <<>>]
    /\ selection = DefaultSelection
    /\ billingData = PageBillingData(LegacyRows, TRUE)
    /\ rendered = RenderBilling(billingData)
    /\ genLog = <<>>
    /\ resp = NoResponse

ListRequest(op, page, limit, ascending, filter, fault) ==
    [caller |-> "u2", op |-> op, target |-> "", fault |-> fault,
     page |-> page, limit |-> limit, ascending |-> ascending, filter |-> filter]

ListsHospitals ==
    /\ \E page \in 1..MaxPage, limit \in 1..MaxLimit, ascending \in BOOLEAN,
          search \in {"", "HSP-00002"}, dbOk \in BOOLEAN :
          /\ req' = ListRequest("listHospitals", page, limit, ascending, search, ~dbOk)
          /\ HandleGetHospitals(page, limit, ascending, search, dbOk)
    /\ UNCHANGED <<billingVars, adminTables, authVars, tickets, inflight>>

ListsUsers ==
    /\ \E page \in 1..MaxPage, limit \in 1..MaxLimit, ascending \in BOOLEAN,
          isAdmin \in {"", "false"} :
          /\ req' = ListRequest("listUsers", page, limit, ascending, isAdmin, FALSE)
          /\ HandleGetUsers(page, limit, ascending, "", isAdmin, TRUE)
    /\ UNCHANGED <<billingVars, adminTables, authVars, tickets, inflight>>

ListsTickets ==
    /\ \E page \in 1..MaxPage, limit \in 1..MaxLimit, ascending \in BOOLEAN,
          status \in {"", "open"} :
          /\ req' = ListRequest("listTickets", page, limit, ascending, status, FALSE)
          /\ HandleGetTickets(page, limit, ascending, status, "", TRUE)
    /\ UNCHANGED <<billingVars, adminTables, authVars, tickets, inflight>>

ListsCreateHospital ==
    /\ req' = Request("u2", "createHospital", "h3", FALSE)
    /\ HandleCreateHospital("h3", TRUE, "HSP-00003", TRUE)
    /\ UNCHANGED <<billingVars, authVars, tickets, inflight>>

ListsCreateUser ==
    /\ "u3" \notin DOMAIN users
    /\ req' = Request("u2", "createUser", "u3", FALSE)
    /\ CreateUser("u3", "h1", TRUE, TRUE, TRUE)
    /\ UNCHANGED <<billingVars, authVars, tickets, inflight>>

ListsResolveTicket ==
    /\ "t1" \in DOMAIN tickets /\ tickets["t1"].status = "open"
    /\ req' = Request("u2", "updateTicketStatus", "t1", FALSE)
    /\ UpdateSupportTicketStatus("t1", "resolved", "", TRUE)
    /\ UNCHANGED <<billingVars, adminTables, authVars, inflight>>

NextLists ==
    \/ ListsHospitals \/ ListsUsers \/ ListsTickets
    \/ ListsCreateHospital \/ ListsCreateUser \/ ListsResolveTicket

SpecLists == InitLists /\ [][NextLists]_vars

\* The filtered and sorted result of the last list request.
ListedResult ==
    LET matching ==
            CASE req.op = "listHospitals" ->
                    {h \in DOMAIN hospitalTable :
                        req.filter = "" \/ hospitalTable[h].code = req.filter}
              [] req.op = "listUsers" ->
                    {u \in DOMAIN users : req.filter = "false" => ~users[u].is_admin}
              [] OTHER ->
                    {t \in DOMAIN tickets : req.filter = "" \/ tickets[t].status = req.filter}
        order == CASE req.op = "listHospitals" -> HospitalSortOrder
                   [] req.op = "listUsers" -> UserSortOrder
                   [] OTHER -> TicketSortOrder
    IN OrderBy(matching, order, req.ascending)

C19_WitnessBeyond ==
    /\ req.op = "listTickets" /\ ~resp.error /\ req.page = 3 /\ req.limit = 1 /\ req.filter = "open"
    /\ resp.rows = <<>> /\ resp.total = 2 /\ resp.totalPages = 2

----------------------------------------------------------------------------
(* Requests in flight.  A handler runs from one await to the next without   *)
(* interruption; between two awaits any other request may run.  The steps   *)
(* below are the handlers above cut at their awaits, with the position and  *)
(* the handler's local variables kept in inflight.                          *)

Started(id, locals) == MapPut(inflight, id, locals)

Answered(id) == [x \in DOMAIN inflight \ {id} |-> inflight[x]]

At(id, op, pc) == id \in DOMAIN inflight /\ inflight[id].op = op /\ inflight[id].pc = pc

Goto(id, pc) == [inflight EXCEPT ![id].pc = pc]

\* handleDeleteHospital: body parsed, hospitalId validated.
DeleteHospitalBegin(id, hospitalId) ==
    /\ id \notin DOMAIN inflight
    /\ IF hospitalId = ""
       THEN resp' = Response("deleteHospital", 400) /\ UNCHANGED inflight
       ELSE /\ inflight' = Started(id, [op |-> "deleteHospital", pc |-> "countUsers",
                                        hospitalId |-> hospitalId])
            /\ UNCHANGED resp
    /\ UNCHANGED <<adminTables, diagnoses, usedDiagIds, images, aiCalls>>

\* handleDeleteHospital: the count of the hospital's users.
DeleteHospitalCountUsers(id) ==
    /\ At(id, "deleteHospital", "countUsers")
    /\ IF UserCount(users, inflight[id].hospitalId) > 0
       THEN resp' = Response("deleteHospital", 400) /\ inflight' = Answered(id)
       ELSE inflight' = Goto(id, "countDiagnoses") /\ UNCHANGED resp
    /\ UNCHANGED <<adminTables, diagnoses, usedDiagIds, images, aiCalls>>

\* handleDeleteHospital: the count of the hospital's diagnoses.
DeleteHospitalCountDiagnoses(id) ==
    /\ At(id, "deleteHospital", "countDiagnoses")
    /\ IF DiagnosisCount(diagnoses, inflight[id].hospitalId) > 0
       THEN resp' = Response("deleteHospital", 400) /\ inflight' = Answered(id)
       ELSE inflight' = Goto(id, "delete") /\ UNCHANGED resp
    /\ UNCHANGED <<adminTables, diagnoses, usedDiagIds, images, aiCalls>>

\* handleDeleteHospital: the delete of the row, and the response.
DeleteHospitalDelete(id, dbOk) ==
    /\ At(id, "deleteHospital", "delete")
    /\ IF ~dbOk
       THEN resp' = Response("deleteHospital", 500) /\ UNCHANGED hospitalTable
       ELSE /\ hospitalTable' = [x \in DOMAIN hospitalTable \ {inflight[id].hospitalId} |->
                                    hospitalTable[x]]
            /\ resp' = Response("deleteHospital", 200)
    /\ inflight' = Answered(id)
    /\ UNCHANGED <<usedHospitalIds, users, authAccounts, wasDisabled, diagnoses, usedDiagIds, images,
                 aiCalls>>

\* Create-user route: required fields validated.  The user id stands for the email.
CreateUserBegin(id, userId, hospitalId) ==
    /\ id \notin DOMAIN inflight
    /\ IF hospitalId = ""
       THEN resp' = Response("createUser", 400) /\ UNCHANGED inflight
       ELSE /\ inflight' = Started(id, [op |-> "createUser", pc |-> "lookup", userId |-> userId,
                                        hospitalId |-> hospitalId])
            /\ UNCHANGED resp
    /\ UNCHANGED <<adminTables, diagnoses, usedDiagIds, images, aiCalls>>

\* Create-user route: the lookup of a user with the same email.
CreateUserLookup(id) ==
    /\ At(id, "createUser", "lookup")
    /\ IF inflight[id].userId \in DOMAIN users
       THEN resp' = Response("createUser", 400) /\ inflight' = Answered(id)
       ELSE inflight' = Goto(id, "createAuth") /\ UNCHANGED resp
    /\ UNCHANGED <<adminTables, diagnoses, usedDiagIds, images, aiCalls>>

\* Create-user route: auth.admin.createUser; the provider refuses an email it already has.
CreateUserAuth(id, authOk) ==
    /\ At(id, "createUser", "createAuth")
    /\ IF ~authOk \/ inflight[id].userId \in DOMAIN authAccounts
       THEN resp' = Response("createUser", 500) /\ inflight' = Answered(id) /\ UNCHANGED authAccounts
       ELSE /\ authAccounts' = MapPut(authAccounts, inflight[id].userId, Account(FALSE))
            /\ inflight' = Goto(id, "insert")
            /\ UNCHANGED resp
    /\ UNCHANGED <<hospitalTable, usedHospitalIds, users, wasDisabled, diagnoses, usedDiagIds, images,
                 aiCalls>>

\* Create-user route: the insert into users, and the response.
CreateUserInsert(id, dbOk) ==
    /\ At(id, "createUser", "insert")
    /\ IF ~dbOk \/ inflight[id].userId \in DOMAIN users
       THEN resp' = Response("createUser", 500) /\ UNCHANGED users
       ELSE /\ users' = MapPut(users, inflight[id].userId,
                               UserRow(inflight[id].hospitalId, FALSE, FALSE))
            /\ resp' = Response("createUser", 200)
    /\ inflight' = Answered(id)
    /\ UNCHANGED <<hospitalTable, usedHospitalIds, authAccounts, wasDisabled, diagnoses, usedDiagIds, images,
                 aiCalls>>

\* Create-diagnosis route: form parsed and validated, diagnosis id drawn.
CreateDiagnosisBegin(id, d, userId, hospitalId, hasImage) ==
    /\ id \notin DOMAIN inflight
    /\ d \in DiagIds \ usedDiagIds
    /\ IF hospitalId = "" \/ ~hasImage
       THEN resp' = Response("createDiagnosis", 400) /\ UNCHANGED <<inflight, usedDiagIds>>
       ELSE /\ usedDiagIds' = usedDiagIds \cup {d}
            /\ inflight' = Started(id, [op |-> "createDiagnosis", pc |-> "upload", diagnosisId |-> d,
                                        userId |-> userId, hospitalId |-> hospitalId,
                                        ai |-> "none"])
            /\ UNCHANGED resp
    /\ UNCHANGED <<adminTables, diagnoses, images, aiCalls>>

\* Create-diagnosis route: the uploads to storage.
CreateDiagnosisUpload(id, uploadOk) ==
    /\ At(id, "createDiagnosis", "upload")
    /\ IF ~uploadOk
       THEN resp' = Response("createDiagnosis", 500) /\ inflight' = Answered(id) /\ UNCHANGED images
       ELSE /\ images' = images \cup {inflight[id].diagnosisId}
            /\ inflight' = Goto(id, "analyse")
            /\ UNCHANGED resp
    /\ UNCHANGED <<adminTables, diagnoses, usedDiagIds, aiCalls>>

\* Create-diagnosis route: the call of the inference service, with its fallback.
CreateDiagnosisAnalyse(id, aiOk) ==
    /\ At(id, "createDiagnosis", "analyse")
    /\ aiCalls' = aiCalls \cup {inflight[id].diagnosisId}
    /\ inflight' = [inflight EXCEPT ![id].pc = "insert",
                                    ![id].ai = IF aiOk THEN "analysis" ELSE "placeholder"]
    /\ UNCHANGED <<adminTables, diagnoses, usedDiagIds, images, resp>>

\* Create-diagnosis route: the insert into diagnoses, and the response.
CreateDiagnosisInsert(id, dbOk) ==
    /\ At(id, "createDiagnosis", "insert")
    /\ IF ~dbOk
       THEN resp' = Response("createDiagnosis", 500) /\ UNCHANGED diagnoses
       ELSE /\ diagnoses' = diagnoses \cup
                 {[DiagnosisRow(inflight[id].diagnosisId, inflight[id].userId, inflight[id].ai)
                      EXCEPT !.hospital_id = inflight[id].hospitalId]}
            /\ resp' = Response("createDiagnosis", 200)
    /\ inflight' = Answered(id)
    /\ UNCHANGED <<adminTables, usedDiagIds, images, aiCalls>>

----------------------------------------------------------------------------
(* Specification of the interleaved hospital-delete, user-create and        *)
(* diagnosis-create requests: one request of each kind may be in flight.    *)
(* Every create request names a hospital that exists when the request is    *)
(* made, as the forms offer the listed hospitals.  Uploads, the analysis    *)
(* and the auth provider succeed; the table writes may fail.                *)

restVars == <<invoices, views, selection, billingData, rendered, genLog, authVars, tickets>>

IntegrityCreateHospital ==
    /\ HandleCreateHospital("h3", TRUE, CodeOf["h3"], TRUE)
    /\ req' = Request("u2", "createHospital", "h3", FALSE)
    /\ UNCHANGED <<diagnoses, usedDiagIds, images, aiCalls, inflight, restVars>>

IntegrityDeleteBegin ==
    \E hospitalId \in {"h1", "h3"} :
        /\ DeleteHospitalBegin("delete", hospitalId)
        /\ req' = Request("u2", "deleteHospital", hospitalId, FALSE)
        /\ UNCHANGED restVars

IntegrityDeleteCountUsers ==
    DeleteHospitalCountUsers("delete") /\ UNCHANGED <<restVars, req>>

IntegrityDeleteCountDiagnoses ==
    DeleteHospitalCountDiagnoses("delete") /\ UNCHANGED <<restVars, req>>

IntegrityDeleteDelete ==
    \E dbOk \in BOOLEAN : DeleteHospitalDelete("delete", dbOk) /\ UNCHANGED <<restVars, req>>

IntegrityUserBegin ==
    \E hospitalId \in DOMAIN hospitalTable :
        /\ CreateUserBegin("user", "u3", hospitalId)
        /\ req' = Request("u2", "createUser", "u3", FALSE)
        /\ UNCHANGED restVars

IntegrityUserLookup ==
    CreateUserLookup("user") /\ UNCHANGED <<restVars, req>>

IntegrityUserAuth ==
    CreateUserAuth("user", TRUE) /\ UNCHANGED <<restVars, req>>

IntegrityUserInsert ==
    \E dbOk \in BOOLEAN : CreateUserInsert("user", dbOk) /\ UNCHANGED <<restVars, req>>

IntegrityDiagnosisBegin ==
    \E hospitalId \in DOMAIN hospitalTable :
        /\ CreateDiagnosisBegin("diagnosis", "d1", "u1", hospitalId, TRUE)
        /\ req' = Request("u1", "createDiagnosis", "d1", FALSE)
        /\ UNCHANGED restVars

IntegrityDiagnosisUpload ==
    CreateDiagnosisUpload("diagnosis", TRUE) /\ UNCHANGED <<restVars, req>>

IntegrityDiagnosisAnalyse ==
    CreateDiagnosisAnalyse("diagnosis", TRUE) /\ UNCHANGED <<restVars, req>>

IntegrityDiagnosisInsert ==
    \E dbOk \in BOOLEAN : CreateDiagnosisInsert("diagnosis", dbOk) /\ UNCHANGED <<restVars, req>>

NextIntegrity ==
    \/ IntegrityCreateHospital
    \/ IntegrityDeleteBegin \/ IntegrityDeleteCountUsers \/ IntegrityDeleteCountDiagnoses
    \/ IntegrityDeleteDelete
    \/ IntegrityUserBegin \/ IntegrityUserLookup \/ IntegrityUserAuth \/ IntegrityUserInsert
    \/ IntegrityDiagnosisBegin \/ IntegrityDiagnosisUpload \/ IntegrityDiagnosisAnalyse
    \/ IntegrityDiagnosisInsert

SpecIntegrity == InitBilling /\ [][NextIntegrity]_vars

\* C21: every users row and every diagnoses row references a hospital that exists.
C21_ReferentialIntegrity ==
    /\ \A u \in DOMAIN users : users[u].hospital_id \in DOMAIN hospitalTable
    /\ \A r \in diagnoses : r.hospital_id \in DOMAIN hospitalTable

----------------------------------------------------------------------------
(* Overlapping add-response requests: the ticket is read in one query and   *)
(* written back in a later one.                                             *)

\* The caller has its result; it stays with the caller until its next request.
Returned(id, result) == MapPut(inflight, id, [op |-> "addResponse", pc |-> "returned", result |-> result])

HasReturned(id) == At(id, "addResponse", "returned")

\* handleAddResponse: body validated, then the query for the current ticket.
HandleAddResponseRead(id, ticketId, response, adminUserId) ==
    /\ IF response = ""
       THEN resp' = Response("addResponse", 400) /\ inflight' = Returned(id, resp')
       ELSE IF ticketId \notin DOMAIN tickets
       THEN resp' = Response("addResponse", 404) /\ inflight' = Returned(id, resp')
       ELSE /\ inflight' = Started(id, [op |-> "addResponse", pc |-> "adminUser",
                                        ticketId |-> ticketId, response |-> response,
                                        adminUserId |-> adminUserId, isAdminResponse |-> TRUE,
                                        viaRoute |-> TRUE,
                                        ticket |-> Select(tickets[ticketId],
                                                          {"responses", "subject", "users"})])
            /\ UNCHANGED resp
    /\ UNCHANGED tickets

\* handleAddResponse: the query for the admin's name; the new entry is pushed
\* onto the list that was read.
HandleAddResponseAdminUser(id) ==
    /\ At(id, "addResponse", "adminUser")
    /\ LET adminName == IF inflight[id].adminUserId \in DOMAIN users
                        THEN inflight[id].adminUserId ELSE "Administrator"
           newResponse == [content |-> inflight[id].response, is_admin_response |-> TRUE,
                           admin_name |-> adminName]
       IN inflight' = [inflight EXCEPT
                         ![id].pc = "update",
                         ![id].ticket.responses = Append(@, newResponse)]
    /\ UNCHANGED <<tickets, resp>>

\* addSupportTicketResponse: the query for the current ticket; the new entry
\* is pushed onto the list that was read.
AddSupportTicketResponseRead(id, ticketId, response, isAdminResponse, dbOk) ==
    /\ IF ~dbOk \/ ticketId \notin DOMAIN tickets
       THEN resp' = UiResult("addResponse", TRUE) /\ inflight' = Returned(id, resp')
       ELSE LET ticket == Select(tickets[ticketId], {"responses"})
                newResponse == [content |-> response, is_admin_response |-> isAdminResponse]
            IN /\ inflight' = Started(id, [op |-> "addResponse", pc |-> "update",
                                           ticketId |-> ticketId, response |-> response,
                                           adminUserId |-> Undefined,
                                           isAdminResponse |-> isAdminResponse,
                                           viaRoute |-> FALSE,
                                           ticket |-> [ticket EXCEPT
                                                         !.responses = Append(@, newResponse)]])
               /\ UNCHANGED resp
    /\ UNCHANGED tickets

\* Both paths: the update that writes the list back, and the result.  The
\* route answers with a status, the service function with a result object.
AddResponseUpdate(id, dbOk) ==
    /\ At(id, "addResponse", "update")
    /\ LET ticketId == inflight[id].ticketId
           ticket == inflight[id].ticket
           viaRoute == inflight[id].viaRoute
           failed == ~dbOk \/ ticketId \notin DOMAIN tickets
       IN /\ IF failed
             THEN UNCHANGED tickets
             ELSE tickets' = [tickets EXCEPT
                                ![ticketId].responses = ticket.responses,
                                ![ticketId].status =
                                    IF inflight[id].isAdminResponse /\ Field(ticket, "status") = "open"
                                    THEN "in-progress" ELSE @]
          /\ resp' = IF viaRoute THEN Response("addResponse", IF failed THEN 500 ELSE 200)
                     ELSE UiResult("addResponse", failed)
          /\ inflight' = Returned(id, resp')

----------------------------------------------------------------------------
(* Specification of overlapping add-response requests: two callers, a1 and  *)
(* a2, each with its own response text, answer the ticket t1 through the    *)
(* route or through the support service.                                    *)

ResponseClients == {"a1", "a2"}

ResponseOf == [id \in ResponseClients |-> IF id = "a1" THEN "r1" ELSE "r2"]

\* The caller has no request under way.
Idle(id) == id \notin DOMAIN inflight \/ HasReturned(id)

ticketRest == <<billingVars, adminTables, authVars>>

ResponsesCreateTicket ==
    /\ req' = TicketRequest("u1", "createTicket", "t1", FALSE, FALSE)
    /\ CreateSupportTicketForUser("t1", "u1", TRUE, "", "", TRUE)
    /\ UNCHANGED <<ticketRest, inflight>>

ResponsesRouteRead ==
    \E id \in ResponseClients, response \in {"", "text"} :
        /\ Idle(id) /\ RoomForResponse("t1")
        /\ req' = TicketRequest(id, "addResponse", "t1", response = "", TRUE)
        /\ HandleAddResponseRead(id, "t1", IF response = "" THEN "" ELSE ResponseOf[id], "u2")
        /\ UNCHANGED ticketRest

ResponsesRouteAdminUser ==
    \E id \in ResponseClients : HandleAddResponseAdminUser(id) /\ UNCHANGED <<ticketRest, req>>

ResponsesServiceRead ==
    \E id \in ResponseClients, isAdminResponse \in BOOLEAN :
        /\ Idle(id) /\ RoomForResponse("t1")
        /\ req' = TicketRequest(id, "addResponse", "t1", FALSE, isAdminResponse)
        /\ AddSupportTicketResponseRead(id, "t1", ResponseOf[id], isAdminResponse, TRUE)
        /\ UNCHANGED ticketRest

ResponsesUpdate ==
    \E id \in ResponseClients, dbOk \in BOOLEAN :
        AddResponseUpdate(id, dbOk) /\ UNCHANGED <<ticketRest, req>>

NextResponses ==
    \/ ResponsesCreateTicket \/ ResponsesRouteRead \/ ResponsesRouteAdminUser
    \/ ResponsesServiceRead \/ ResponsesUpdate

SpecResponses == InitBilling /\ [][NextResponses]_vars

\* The caller's last request returned success.
Succeeded(id) == HasReturned(id) /\ ~inflight[id].result.error

\* C22: when both callers have been told that their response was added, the
\* ticket's stored list holds the response of each of them.
C22_NoResponseLost ==
    (Succeeded("a1") /\ Succeeded("a2")) =>
        \A id \in ResponseClients :
            \E i \in 1..Len(tickets["t1"].responses) :
                tickets["t1"].responses[i].content = ResponseOf[id]

----------------------------------------------------------------------------
(* Specification of the ticket fields: tickets are created, updated and     *)
(* answered with whatever status and priority the request carries; the      *)
(* pages offer the listed values, the functions and the route take strings. *)

TicketStatuses == {"open", "in-progress", "resolved", "closed"}

TicketPriorities == {"low", "medium", "high"}

\* Values a request may carry: listed ones and one that is not listed.
StatusValues == {"open", "closed", "archived"}

PriorityValues == {"low", "urgent"}

FieldsCreate ==
    /\ \E status \in StatusValues \cup {""}, priority \in PriorityValues \cup {""} :
          /\ req' = TicketRequest("u1", "createTicket", "t1", FALSE, FALSE)
          /\ CreateSupportTicketForUser("t1", "u1", TRUE, status, priority, TRUE)
    /\ UNCHANGED <<billingVars, adminTables, authVars, inflight>>

FieldsUpdateStatus ==
    /\ \E status \in StatusValues, dbOk \in BOOLEAN :
          /\ req' = TicketRequest("u2", "updateTicketStatus", "t1", ~dbOk, FALSE)
          /\ UpdateSupportTicketStatus("t1", status, "", dbOk)
    /\ UNCHANGED <<billingVars, adminTables, authVars, inflight>>

FieldsApiUpdate ==
    /\ \E status \in StatusValues \cup {Undefined}, priority \in PriorityValues \cup {Undefined},
          dbOk \in BOOLEAN :
          /\ req' = TicketRequest("u2", "updateTicket", "t1", ~dbOk, FALSE)
          /\ HandleUpdateTicket("t1", [status |-> status, priority |-> priority,
                                       adminNotes |-> Undefined], dbOk)
    /\ UNCHANGED <<billingVars, adminTables, authVars, inflight>>

FieldsAddResponse ==
    /\ RoomForResponse("t1")
    /\ \E isAdminResponse \in BOOLEAN :
          /\ req' = TicketRequest("u2", "addResponse", "t1", FALSE, isAdminResponse)
          /\ AddSupportTicketResponse("t1", "r1", isAdminResponse, TRUE)
    /\ UNCHANGED <<billingVars, adminTables, authVars, inflight>>

FieldsApiAddResponse ==
    /\ RoomForResponse("t1")
    /\ req' = TicketRequest("u2", "addResponse", "t1", FALSE, TRUE)
    /\ HandleAddResponse("t1", "r2", "u2", TRUE)
    /\ UNCHANGED <<billingVars, adminTables, authVars, inflight>>

NextTicketFields ==
    \/ FieldsCreate \/ FieldsUpdateStatus \/ FieldsApiUpdate
    \/ FieldsAddResponse \/ FieldsApiAddResponse

SpecTicketFields == InitBilling /\ [][NextTicketFields]_vars

\* C23: every ticket's status is one of open, in-progress, resolved, closed
\* and its priority one of low, medium, high.
C23_TicketFieldsInDomain ==
    \A t \in DOMAIN tickets :
        /\ tickets[t].status \in TicketStatuses
        /\ tickets[t].priority \in TicketPriorities

----------------------------------------------------------------------------
(* Specification of the sign-in outcomes: u1 has an account and a users     *)
(* row; u3 is created through the user management service, whose insert     *)
(* into users may fail after the auth account was made; u1 is disabled and  *)
(* enabled by the administrator.                                            *)

SignInEmails == {"u1", "u3"}

OutcomeCreateUser ==
    /\ "u3" \notin DOMAIN authAccounts
    /\ \E dbOk \in BOOLEAN :
          /\ CreateUser("u3", "h1", TRUE, TRUE, dbOk)
          /\ req' = Request("u2", "createUser", "u3", ~dbOk)
    /\ UNCHANGED <<billingVars, authVars, tickets, inflight>>

OutcomeSignIn ==
    /\ \E email \in SignInEmails, passwordOk \in BOOLEAN, hospitalId \in {"", "h1", "h2"},
          securityOk \in BOOLEAN :
          SignIn(email, passwordOk, hospitalId, securityOk)
    /\ UNCHANGED <<billingVars, adminTables, tickets, inflight>>

OutcomeSignOut == SignOut /\ UNCHANGED <<billingVars, adminTables, tickets, inflight>>

OutcomeAttemptsExpire ==
    /\ \E email \in SignInEmails : email \in DOMAIN failedAttempts /\ AttemptsExpire(email)
    /\ UNCHANGED <<billingVars, adminTables, tickets, inflight>>

OutcomeDisableUser ==
    /\ DisableUser("u1", TRUE, TRUE)
    /\ req' = Request("u2", "disableUser", "u1", FALSE)
    /\ UNCHANGED <<billingVars, authVars, tickets, inflight>>

OutcomeEnableUser ==
    /\ EnableUser("u1", TRUE, TRUE)
    /\ req' = Request("u2", "enableUser", "u1", FALSE)
    /\ UNCHANGED <<billingVars, authVars, tickets, inflight>>

NextSignInOutcomes ==
    \/ OutcomeCreateUser \/ OutcomeSignIn \/ OutcomeSignOut
    \/ OutcomeAttemptsExpire \/ OutcomeDisableUser \/ OutcomeEnableUser

SpecSignInOutcomes == InitBilling /\ [][NextSignInOutcomes]_vars

\* C25: a sign-in that returns an error leaves no session established.
C25_FailedSignInLeavesNoSession ==
    [][(req'.op = "signIn" /\ resp'.op = "signIn" /\ resp'.error) => session' = NoSession]_vars

----------------------------------------------------------------------------
(* Specification of accounts and users rows: u3 is created through the      *)
(* service or the route, u2 and u3 are deleted through the service or the   *)
(* route, and each backend call of these requests may fail.                 *)

accountRest == <<invoices, views, selection, billingData, rendered, genLog, authVars, tickets>>

AccountsCreateService ==
    /\ inflight = EmptyMap
    /\ \E lookupOk, authOk, dbOk \in BOOLEAN :
          /\ CreateUser("u3", "h1", lookupOk, authOk, dbOk)
          /\ req' = Request("u2", "createUser", "u3", ~(lookupOk /\ authOk /\ dbOk))
    /\ UNCHANGED <<billingVars, authVars, tickets, inflight>>

AccountsRouteBegin ==
    /\ CreateUserBegin("user", "u3", "h1")
    /\ req' = Request("u2", "createUser", "u3", FALSE)
    /\ UNCHANGED accountRest

AccountsRouteLookup == CreateUserLookup("user") /\ UNCHANGED <<accountRest, req>>

AccountsRouteAuth ==
    \E authOk \in BOOLEAN :
        /\ CreateUserAuth("user", authOk)
        /\ req' = [req EXCEPT !.fault = ~authOk]
        /\ UNCHANGED accountRest

AccountsRouteInsert ==
    \E dbOk \in BOOLEAN :
        /\ CreateUserInsert("user", dbOk)
        /\ req' = [req EXCEPT !.fault = ~dbOk]
        /\ UNCHANGED accountRest

AccountsDeleteRoute ==
    /\ inflight = EmptyMap
    /\ \E userId \in {"u2", "u3"}, countOk, authOk, dbOk \in BOOLEAN :
          /\ HandleDeleteUser(userId, countOk, authOk, dbOk)
          /\ req' = Request("u2", "deleteUser", userId, ~(countOk /\ authOk /\ dbOk))
    /\ UNCHANGED <<billingVars, authVars, tickets, inflight>>

AccountsDeleteService ==
    /\ inflight = EmptyMap
    /\ \E userId \in {"u2", "u3"}, countOk, authOk, dbOk \in BOOLEAN :
          /\ DeleteUser(userId, countOk, authOk, dbOk)
          /\ req' = Request("u2", "deleteUser", userId, ~(countOk /\ authOk /\ dbOk))
    /\ UNCHANGED <<billingVars, authVars, tickets, inflight>>

NextAccounts ==
    \/ AccountsCreateService
    \/ AccountsRouteBegin \/ AccountsRouteLookup \/ AccountsRouteAuth \/ AccountsRouteInsert
    \/ AccountsDeleteRoute \/ AccountsDeleteService

SpecAccounts == InitBilling /\ [][NextAccounts]_vars

\* C26: when no request is under way, the user ids with an auth account are
\* the user ids with a users row.
C26_AccountIffUserRow ==
    inflight = EmptyMap => DOMAIN authAccounts = DOMAIN users

----------------------------------------------------------------------------
(* Specification of the redirects: a browser with or without a session      *)
(* requests a path and follows the redirects the middleware answers with;   *)
(* between navigations admin flags are granted and withdrawn.               *)

MaxHops == 4

RequestPaths ==
    AdminPages \cup
    {<<>>, LoginPath, <<"signup">>, <<"reset-password">>, UnauthorizedPath, <<"unauthorized">>,
     <<"dashboard">>, ApiAdminHospitals, ApiAdminUsers("u1")}

Navigation(caller, pathname, hops) ==
    [caller |-> caller, op |-> "navigate", target |-> pathname, fault |-> FALSE, hops |-> hops]

RedirectsNavigate ==
    /\ \E caller \in Callers, pathname \in RequestPaths :
          /\ req' = Navigation(caller, pathname, 0)
          /\ resp' = Middleware(pathname, caller, users)
    /\ UNCHANGED <<billingVars, adminTables, authVars, tickets, inflight>>

\* The browser requests the location of the redirect, with the same session.
RedirectsFollow ==
    /\ req.op = "navigate" /\ resp.op = "redirect"
    /\ req.hops < MaxHops
    /\ req' = Navigation(req.caller, resp.to, req.hops + 1)
    /\ resp' = Middleware(resp.to, req.caller, users)
    /\ UNCHANGED <<billingVars, adminTables, authVars, tickets, inflight>>

RedirectsUpdateUser ==
    /\ \E userId \in UserIds, isAdmin \in BOOLEAN, dbOk \in BOOLEAN :
          /\ HandleUpdateUser(userId, "update", isAdmin, dbOk, TRUE)
          /\ req' = Request("u2", "update", userId, ~dbOk)
    /\ UNCHANGED <<billingVars, authVars, tickets, inflight>>

NextRedirects == RedirectsNavigate \/ RedirectsFollow \/ RedirectsUpdateUser

SpecRedirects == InitAdminApi /\ [][NextRedirects]_vars

\* C27: a navigation has followed at most two redirects, and after two the
\* middleware lets the request through.
C27_RedirectsEndWithinTwo ==
    req.op = "navigate" => (req.hops <= 2 /\ (req.hops = 2 => resp.op = "next"))

\* The non-admin u1 asked for the login page and, after two redirects, is let
\* through to the unauthorized page.
C27_Witness ==
    /\ req = Navigation("u1", UnauthorizedPath, 2)
    /\ ~IsAdminUser(users, "u1")
    /\ resp.op = "next"

----------------------------------------------------------------------------
(* The users page: fetchUsers builds the query string of /api/admin/users   *)
(* from the page, the hospital filter and the status filter.                *)

StatusFilters == {"", "active", "disabled", "admin", "verified", "unverified"}

\* The status parameters fetchUsers appends; Null for a parameter it leaves out.
StatusParams(statusFilter) ==
    [isDisabled |-> CASE statusFilter = "active" -> "false"
                      [] statusFilter = "disabled" -> "true"
                      [] OTHER -> Null,
     isAdmin    |-> IF statusFilter = "admin" THEN "true" ELSE Null,
     isVerified |-> CASE statusFilter = "verified" -> "true"
                      [] statusFilter = "unverified" -> "false"
                      [] OTHER -> Null]

\* fetchUsers: the request to the endpoint, whose handler reads page, limit,
\* sortBy, sortOrder, hospitalId, search and isAdmin from the query string.
FetchUsers(page, limit, hospitalFilter, statusFilter, dbOk) ==
    LET params == StatusParams(statusFilter)
    IN HandleGetUsers(page, limit, FALSE, hospitalFilter,
                      IF params.isAdmin = Null THEN "" ELSE params.isAdmin, dbOk)

\* What the page's status filter selects.
SatisfiesStatus(row, statusFilter) ==
    CASE statusFilter = "active"     -> ~row.is_disabled
      [] statusFilter = "disabled"   -> row.is_disabled
      [] statusFilter = "admin"      -> row.is_admin
      [] statusFilter = "verified"   -> row.is_verified
      [] statusFilter = "unverified" -> ~row.is_verified
      [] OTHER -> TRUE

----------------------------------------------------------------------------
(* Specification of the filtered users list: u1 is verified, u2 is the      *)
(* unverified administrator; users are disabled, enabled and made admin     *)
(* while the page fetches its list under every status filter.               *)

InitUserFilter ==
    /\ hospitalTable = [h \in {"h1", "h2"} |-> HospitalRow(h, CodeOf[h])]
    /\ usedHospitalIds = {"h1", "h2"}
    /\ users = [u \in UserIds |->
                  IF u = "u1" THEN UserRow("h1", FALSE, FALSE) @@ [is_verified |-> TRUE]
                  ELSE UserRow("h2", TRUE, FALSE) @@ [is_verified |-> FALSE]]
    /\ authAccounts = [u \in UserIds |-> Account(FALSE)]
    /\ wasDisabled = {}
    /\ session = NoSession
    /\ failedAttempts = [u \in UserIds |-> 0]
    /\ inflight = EmptyMap
    /\ tickets = EmptyMap
    /\ req = NoRequest
    /\ diagnoses = LegacyRows
    /\ usedDiagIds = LegacyIds
    /\ images = LegacyIds
    /\ aiCalls = LegacyIds
    /\ invoices = <<>>
    /\ views = [s \in Sessions |-> <<>>]
    /\ selection = DefaultSelection
    /\ billingData = PageBillingData(LegacyRows, TRUE)
    /\ rendered = RenderBilling(billingData)
    /\ genLog = <<>>
    /\ resp = NoResponse

FilterFetchUsers ==
    /\ \E page \in 1..2, limit \in 1..2, hospitalFilter \in {"", "h1"},
          statusFilter \in StatusFilters, dbOk \in BOOLEAN :
          /\ req' = [caller |-> "u2", op |-> "fetchUsers", target |-> "", fault |-> ~dbOk,
                     page |-> page, limit |-> limit, hospitalFilter |-> hospitalFilter,
                     statusFilter |-> statusFilter]
          /\ FetchUsers(page, limit, hospitalFilter, statusFilter, dbOk)
    /\ UNCHANGED <<billingVars, adminTables, authVars, tickets, inflight>>

FilterUpdateUser ==
    /\ \E userId \in UserIds, operation \in {"disable", "enable", "update"}, isAdmin \in BOOLEAN :
          /\ HandleUpdateUser(userId, operation, isAdmin, TRUE, TRUE)
          /\ req' = Request("u2", operation, userId, FALSE)
    /\ UNCHANGED <<billingVars, authVars, tickets, inflight>>

NextUserFilter == FilterFetchUsers \/ FilterUpdateUser

SpecUserFilter == InitUserFilter /\ [][NextUserFilter]_vars

\* C28: every user in the list fetched under a status filter satisfies it.
C28_ListedUsersSatisfyStatus ==
    (req.op = "fetchUsers" /\ ~resp.error) =>
        \A i \in 1..Len(resp.rows) : SatisfiesStatus(users[resp.rows[i]], req.statusFilter)

----------------------------------------------------------------------------
(* The page links of the support tickets list *)

Min(a, b) == IF a < b THEN a ELSE b

\* The page number computed for the link at index i (from 0).
PageNum(page, totalPages, i) ==
    IF page > totalPages - 2 THEN totalPages - 4 + i
    ELSE IF page < 3 THEN i + 1
    ELSE page - 2 + i

\* Array.from({ length: Math.min(5, totalPages) }, ...): the numbers of the
\* links that are rendered, in order; an index whose number is not in
\* 1..totalPages renders nothing.
PageLinks(page, totalPages) ==
    SelectSeq([k \in 1..Min(5, totalPages) |-> PageNum(page, totalPages, k - 1)],
              LAMBDA pageNum : pageNum > 0 /\ pageNum <= totalPages)

\* The pagination as rendered: nothing unless totalPages > 1.
RenderPagination(page, totalPages) ==
    [op |-> "pagination", status |-> 0, error |-> FALSE,
     links |-> IF totalPages > 1 THEN PageLinks(page, totalPages) ELSE <<>>,
     previous |-> totalPages > 1 /\ page > 1,
     next |-> totalPages > 1 /\ page < totalPages]

----------------------------------------------------------------------------
(* Specification of the ticket list's pagination: the list is loaded with   *)
(* 1..MaxTotalPages pages, and the administrator moves with the page links, *)
(* Previous and Next.                                                       *)

MaxTotalPages == 10

\* The state of the list page after a click on the given control.
TicketsPage(control, page, totalPages) ==
    [caller |-> "u2", op |-> "ticketsPage", target |-> control, fault |-> FALSE,
     page |-> page, totalPages |-> totalPages]

Show(control, page, totalPages) ==
    /\ req' = TicketsPage(control, page, totalPages)
    /\ resp' = RenderPagination(page, totalPages)
    /\ UNCHANGED <<billingVars, adminTables, authVars, tickets, inflight>>

\* The list is opened: page 1 of however many pages the tickets fill.
PaginationLoad == \E totalPages \in 1..MaxTotalPages : Show("search", 1, totalPages)

PaginationClickLink ==
    /\ req.op = "ticketsPage"
    /\ \E k \in 1..Len(resp.links) : Show("link", resp.links[k], req.totalPages)

PaginationPrevious == req.op = "ticketsPage" /\ resp.previous /\ Show("previous", req.page - 1, req.totalPages)

PaginationNext == req.op = "ticketsPage" /\ resp.next /\ Show("next", req.page + 1, req.totalPages)

NextPagination == PaginationLoad \/ PaginationClickLink \/ PaginationPrevious \/ PaginationNext

SpecPagination == InitBilling /\ [][NextPagination]_vars

\* C29: with more than one page, the rendered page links are distinct numbers
\* within 1..totalPages and the current page is among them.
C29_PageLinksCoverCurrentPage ==
    (req.op = "ticketsPage" /\ req.totalPages > 1) =>
        /\ \A k \in 1..Len(resp.links) : resp.links[k] \in 1..req.totalPages
        /\ \A j, k \in 1..Len(resp.links) : j # k => resp.links[j] # resp.links[k]
        /\ \E k \in 1..Len(resp.links) : resp.links[k] = req.page

----------------------------------------------------------------------------
(* fetchBillingData step by step: the call of getBillingData is awaited, and *)
(* the administrator can change the selection again before it returns.       *)

\* The period or the hospital changes and the effect calls fetchBillingData,
\* which reads the selection of this render and awaits getBillingData.
FetchBillingDataBegin(id, selectedHospital, startDate, endDate) ==
    /\ id \notin DOMAIN inflight
    /\ selection' = [hospital |-> selectedHospital, startDate |-> startDate, endDate |-> endDate]
    /\ selection' # selection
    /\ inflight' = Started(id, [op |-> "fetchBillingData", pc |-> "getBillingData",
                                hospitalId |-> SelectedHospitalId(selection'),
                                startDate |-> startDate, endDate |-> endDate])
    /\ resp' = UiResult("setIsLoading", FALSE)
    /\ UNCHANGED <<diagnoses, usedDiagIds, images, aiCalls, invoices, views, billingData,
                   rendered, genLog>>

\* getBillingData returns to the call that awaited it: setBillingData(newData).
FetchBillingDataReturn(id, dbOk) ==
    /\ At(id, "fetchBillingData", "getBillingData")
    /\ LET call == inflight[id]
           r == GetBillingData(diagnoses, call.hospitalId, call.startDate, call.endDate, dbOk)
       IN /\ billingData' = r.billingData
          /\ rendered' = RenderBilling(r.billingData)
          /\ resp' = UiResult("fetchBillingData", r.error # Null)
    /\ inflight' = Answered(id)
    /\ UNCHANGED <<diagnoses, usedDiagIds, images, aiCalls, invoices, views, selection, genLog>>

----------------------------------------------------------------------------
(* Specification of the overview under quick changes of the selection: up to *)
(* MaxOutstanding calls of getBillingData are awaited at once and return in  *)
(* any order. The diagnoses do not change and the database answers.          *)

MaxOutstanding == 2

BillingCalls == 1..MaxOutstanding

OverviewSelect ==
    /\ \E id \in BillingCalls, h \in HospitalSelections, p \in Periods :
          FetchBillingDataBegin(id, h, p[1], p[2])
    /\ UNCHANGED <<adminTables, authVars, tickets, req>>

OverviewReturn ==
    /\ \E id \in BillingCalls : FetchBillingDataReturn(id, TRUE)
    /\ UNCHANGED <<adminTables, authVars, tickets, req>>

NextOverview == OverviewSelect \/ OverviewReturn

SpecOverview == InitBilling /\ [][NextOverview]_vars

\* The figures of a selection.
FiguresOf(sel) ==
    RenderBilling(Aggregate(diagnoses, SelectedHospitalId(sel), sel.startDate, sel.endDate))

\* C30: once every outstanding billing request has completed, the figures shown
\* are those of the most recently selected period and hospital.
C30_LatestSelectionShown ==
    inflight = EmptyMap => rendered = FiguresOf(selection)

====
